---------------------------- MODULE Spec2Model ----------------------------
(***************************************************************************)
(* Model of cargar-pagos: the payment-receipt reconciliation pipelines     *)
(* (ejecutar_carga_pagos, ejecutar_honorarios, ejecutar_cuotas_concepto)   *)
(* and the text helpers they rest on.                                      *)
(*                                                                         *)
(* Texts are sequences of one-character strings, so that the regular       *)
(* expressions and the separator rules of the source are computed, not     *)
(* assumed.  The empty text is << >>.                                      *)
(***************************************************************************)
EXTENDS Integers, Sequences, FiniteSets, TLC

VARIABLES
    \* ---- LocaleParsers harness (SpecParsers)
    archivo,        \* the file-name text handed to the two extractors
    dni_normal,     \* result of extraer_dni_desde_archivo, or Pendiente
    dni_honorario,  \* result of extraer_dni_honorario, or Pendiente
    \* ---- the tabular store
    header_pro,     \* sheet 'Pro': the headers of its month columns
    data_pro,       \* sheet 'Pro': its data rows
    hojas,          \* period collections: sheet name -> data rows
    ahora,          \* datetime.now(): [mesIdx, anio]
    \* ---- ejecutar_cuotas_concepto (one run at a time)
    cq_pc,          \* "reposo" | "filas" | "escribir"
    cq_i,           \* index of the next row of data_mes
    cq_corridas,    \* runs that have returned
    acumulador,     \* key -> amount accumulated in the month
    conceptos,      \* column E being computed
    cuotas,         \* column G being computed
    actualizadas,   \* rows classified in this run
    estado,         \* running total of the row just processed
    val_cuota,      \* installment value of the row just processed
    cant_cuotas,    \* installment count of the row just processed
    concepto,       \* concept of the row just processed
    cuota,          \* installment number of the row just processed
    \* ---- sheet 'Informacion imagenes' and the runs of the two loaders
    info,           \* raw rows: archivo A(0), fecha D(3), monto F(5), p P(15), q Q(16)
    ejecuciones,    \* runs of ejecutar_carga_pagos and ejecutar_honorarios started
    fallas,         \* calls to the store that have failed
    \* ---- ejecutar_carga_pagos (one run at a time)
    cp_pc,          \* "reposo" | "filas" | "escribir"
    cp_i,           \* index of the next raw row
    info_data,      \* the raw rows as read at the start of the run
    pro_leido,      \* data_pro as read at the start of the run
    existing_entries, \* sheet name -> keys <<dni, dia, mesIdx>>
    filas_por_hoja, \* sheet name and rows to append, in order of first use
    estados,        \* one status per raw row processed
    cargados,
    duplicados,
    errores,
    cp_resultado,   \* [tipo "ninguno" | "retorno" | "excepcion", ...] of the last run
    \* ---- ejecutar_honorarios (one run at a time)
    hn_pc,          \* "reposo" | "grupos" | "estado"
    hn_g,           \* index of the next group
    grupos,         \* [anio, mesIdx, items] in order of first appearance
    marcas_q,       \* index of a raw row -> text for its column Q
    procesados,
    hn_duplicados,
    sin_base,
    hn_resultado,   \* [tipo "ninguno" | "retorno" | "excepcion", ...] of the last run
    \* ---- calendar_ar (one call at a time)
    feriados_cache, \* _feriados_cache: year -> set of 'YYYY-MM-DD' texts
    consultas,      \* year -> requests sent to the remote holiday source
    cal_llamada,    \* the last call of the calendar: operation, arguments, result
    \* ---- parsear_monto_float harness (SpecMontos)
    monto_texto,    \* the amount text handed to parsear_monto_float
    monto_float,    \* [tipo "pendiente"], or [tipo "retorno", valor] with its result
    \* ---- resolver_cta_destino harness (SpecCanal)
    canal_llamada,  \* the last call: emisor, destino_raw, destino_n, canal_code
    \* ---- procesar_pagos (SpecProceso)
    pp_fase,        \* "reposo" | "carga" | "honorarios" | "cuotas"
    pp_respuestas,  \* the status codes returned, in order
    historico,      \* sheet 'Historico': the rows appended to it
    \* ---- a second run of ejecutar_carga_pagos (SpecSolape)
    otra,           \* its local variables, as a record
    solapadas       \* the two runs have overlapped in time

varsParsers == <<archivo, dni_normal, dni_honorario>>
varsStore == <<header_pro, data_pro, hojas, ahora>>
varsFila == <<estado, val_cuota, cant_cuotas, concepto, cuota>>
varsCuotas == <<cq_pc, cq_i, cq_corridas, acumulador, conceptos, cuotas, actualizadas>>
varsCarga == <<cp_pc, cp_i, info_data, pro_leido, existing_entries, filas_por_hoja,
               estados, cargados, duplicados, errores, cp_resultado>>
varsHon == <<hn_pc, hn_g, grupos, marcas_q, procesados, hn_duplicados, sin_base, hn_resultado>>
varsPipelines == <<info, ejecuciones, fallas, varsCarga, varsHon>>
varsCalendario == <<feriados_cache, consultas, cal_llamada>>
varsMontos == <<monto_texto, monto_float>>
varsCanal == <<canal_llamada>>
varsProceso == <<pp_fase, pp_respuestas, historico>>
varsOtra == <<otra, solapadas>>
varsExtra == <<varsCanal, varsProceso, varsOtra>>
varsPuros == <<varsCalendario, varsMontos, varsExtra>>
vars == <<varsParsers, varsStore, varsCuotas, varsFila, varsPipelines, varsPuros>>

\* marks a result not computed yet (no extractor returns it)
Pendiente == <<"pendiente">>

\* neither loader is running and none has run
CargaEnReposo ==
    /\ cp_pc = "reposo"
    /\ cp_i = 0
    /\ info_data = << >>
    /\ pro_leido = << >>
    /\ existing_entries = << >>
    /\ filas_por_hoja = << >>
    /\ estados = << >>
    /\ cargados = 0
    /\ duplicados = 0
    /\ errores = 0

HonEnReposo ==
    /\ hn_pc = "reposo"
    /\ hn_g = 0
    /\ grupos = << >>
    /\ marcas_q = << >>
    /\ procesados = 0
    /\ hn_duplicados = 0
    /\ sin_base = 0

PipelinesSinUso ==
    /\ info = << >>
    /\ ejecuciones = 0
    /\ fallas = 0
    /\ CargaEnReposo
    /\ cp_resultado = [tipo |-> "ninguno"]
    /\ HonEnReposo
    /\ hn_resultado = [tipo |-> "ninguno"]

\* no call of the calendar has been made, the cache of the process is empty
CalendarioSinUso ==
    /\ feriados_cache = << >>
    /\ consultas = << >>
    /\ cal_llamada = [op |-> "ninguna"]

MontosSinUso ==
    /\ monto_texto = << >>
    /\ monto_float = [tipo |-> "pendiente"]

\* resolver_cta_destino has not been called, procesar_pagos has not been
\* invoked and there is no second run of the loader
CanalSinUso == canal_llamada = [op |-> "ninguna"]
ProcesoSinUso ==
    /\ pp_fase = "reposo"
    /\ pp_respuestas = << >>
    /\ historico = << >>
OtraEnReposo ==
    [pc |-> "reposo", i |-> 0, info_data |-> << >>, pro_leido |-> << >>,
     existing_entries |-> << >>, filas_por_hoja |-> << >>, estados |-> << >>,
     cargados |-> 0, duplicados |-> 0, errores |-> 0,
     resultado |-> [tipo |-> "ninguno"],
     ejecuciones |-> 0,   \* the count of runs started, as of its last step
     corridas |-> 0]      \* the runs it has started
OtraSinUso == otra = OtraEnReposo /\ solapadas = FALSE
ExtraSinUso == CanalSinUso /\ ProcesoSinUso /\ OtraSinUso

PurosSinUso == CalendarioSinUso /\ MontosSinUso /\ ExtraSinUso

(***************************************************************************)
(* Characters                                                              *)
(***************************************************************************)
Digitos == {"0", "1", "2", "3", "4", "5", "6", "7", "8", "9"}
Minusculas == <<"a", "b", "c", "d", "e", "f", "g", "h", "i", "j", "l", "m", "n",
                "o", "p", "r", "s", "t", "u", "v", "x", "y", "z">>
Mayusculas == <<"A", "B", "C", "D", "E", "F", "G", "H", "I", "J", "L", "M", "N",
                "O", "P", "R", "S", "T", "U", "V", "X", "Y", "Z">>
Letras == {Minusculas[k] : k \in 1..Len(Minusculas)} \cup {Mayusculas[k] : k \in 1..Len(Mayusculas)}

IsDigit(c) == c \in Digitos
IsLetter(c) == c \in Letras
IsSpace(c) == c = " "
\* \w of the regular expressions: letters, digits and the underscore
IsWord(c) == IsDigit(c) \/ IsLetter(c) \/ c = "_"

Max(S) == CHOOSE x \in S : \A y \in S : y <= x
Min(S) == CHOOSE x \in S : \A y \in S : x <= y

\* str.strip(): the text without its leading and trailing white space
strip(s) ==
    LET idx == {k \in 1..Len(s) : ~IsSpace(s[k])}
    IN  IF idx = {} THEN << >> ELSE SubSeq(s, Min(idx), Max(idx))

\* \b between position p and p+1 of s (p = 0: before the first character)
Boundary(s, p) ==
    (p >= 1 /\ IsWord(s[p])) # (p < Len(s) /\ IsWord(s[p + 1]))

\* length of the maximal run of digits of s that starts at position i
DigitRun(s, i) ==
    Max({k \in 0..(Len(s) - i + 1) : \A j \in i..(i + k - 1) : IsDigit(s[j])})

\* length of the maximal run of white space of s that starts at position i
SpaceRun(s, i) ==
    Max({k \in 0..(Len(s) - i + 1) : \A j \in i..(i + k - 1) : IsSpace(s[j])})

(***************************************************************************)
(* utils/parsers.py: identifiers from file names                           *)
(***************************************************************************)
\* bounds of \d{6,12}
MinDni == 6
MaxDni == 12

\* re.search(r"\b[a-z]*h\b", s, re.IGNORECASE)
TieneMarcaH(s) ==
    \E i \in 1..Len(s) : \E j \in i..Len(s) :
        /\ Boundary(s, i - 1)
        /\ \A k \in i..(j - 1) : IsLetter(s[k])
        /\ s[j] \in {"h", "H"}
        /\ Boundary(s, j)

\* re.match(r"^\s*(\d{6,12})\b", s): the leading digit run, when it has 6 to
\* 12 digits and ends at a word boundary
DniAlInicio(s) ==
    LET n == DigitRun(s, 1)
    IN  IF n >= MinDni /\ n <= MaxDni /\ Boundary(s, n)
        THEN SubSeq(s, 1, n) ELSE << >>

\* re.search(r"(\d{6,12})", s): the leftmost run of at least 6 digits, cut
\* to its first 12
DniEnCualquierParte(s) ==
    LET ini == {p \in 1..Len(s) : DigitRun(s, p) >= MinDni}
    IN  IF ini = {} THEN << >>
        ELSE LET p == Min(ini)
                 n == DigitRun(s, p)
             IN  SubSeq(s, p, p + (IF n > MaxDni THEN MaxDni ELSE n) - 1)

extraer_dni_desde_archivo(txt) ==
    LET s == strip(txt)
    IN  IF TieneMarcaH(s) THEN << >>
        ELSE IF DniAlInicio(s) # << >> THEN DniAlInicio(s)
        ELSE DniEnCualquierParte(s)

\* re.match(r"^\s*(\d{6,12})\s*[hH]\b", s)
extraer_dni_honorario(txt) ==
    LET s == strip(txt)
        n == DigitRun(s, 1)
        h == n + SpaceRun(s, n + 1) + 1
    IN  IF /\ n >= MinDni /\ n <= MaxDni
           /\ h <= Len(s) /\ s[h] \in {"h", "H"}
           /\ Boundary(s, h)
        THEN SubSeq(s, 1, n) ELSE << >>

(***************************************************************************)
(* utils/text.py: amounts.  A number is [num, dec]: num / 10^dec.          *)
(***************************************************************************)
RECURSIVE Pot10(_)
Pot10(k) == IF k <= 0 THEN 1 ELSE 10 * Pot10(k - 1)

DigitosEnOrden == <<"0", "1", "2", "3", "4", "5", "6", "7", "8", "9">>
ValorDigito(c) == CHOOSE v \in 0..9 : DigitosEnOrden[v + 1] = c

RECURSIVE ValorDigitos(_)
ValorDigitos(s) ==
    IF s = << >> THEN 0
    ELSE 10 * ValorDigitos(SubSeq(s, 1, Len(s) - 1)) + ValorDigito(s[Len(s)])

Cero == [num |-> 0, dec |-> 0]
Entero(n) == [num |-> n, dec |-> 0]
EnEscala(v, k) == v.num * Pot10(k - v.dec)
EscalaComun(a, b) == IF a.dec >= b.dec THEN a.dec ELSE b.dec
Suma(a, b) ==
    LET k == EscalaComun(a, b)
    IN  [num |-> EnEscala(a, k) + EnEscala(b, k), dec |-> k]
Resta(a, b) ==
    LET k == EscalaComun(a, b)
    IN  [num |-> EnEscala(a, k) - EnEscala(b, k), dec |-> k]
Por(a, n) == [num |-> a.num * n, dec |-> a.dec]
Menor(a, b) == EnEscala(a, EscalaComun(a, b)) < EnEscala(b, EscalaComun(a, b))
Igual(a, b) == EnEscala(a, EscalaComun(a, b)) = EnEscala(b, EscalaComun(a, b))
MayorIgual(a, b) == ~Menor(a, b)

Cuenta(s, ch) == Cardinality({i \in 1..Len(s) : s[i] = ch})
\* str.rfind, with 0 for "not found"
rfind(s, ch) == Max({0} \cup {i \in 1..Len(s) : s[i] = ch})
Quitar(s, ch) == SelectSeq(s, LAMBDA c : c # ch)
Reemplazar(s, a, b) == [i \in 1..Len(s) |-> IF s[i] = a THEN b ELSE s[i]]
\* re.sub(r"[^\d.,]", "", s)
SoloNumerico(s) == SelectSeq(s, LAMBDA c : IsDigit(c) \/ c \in {".", ","})
\* number of characters after the only separator ch of s
TrasSeparador(s, ch) == Len(s) - rfind(s, ch)

\* float(s) for a text of digits and dots; 0.0 where float raises ValueError
float(s) ==
    IF Cuenta(s, ".") > 1 \/ Quitar(s, ".") = << >> THEN Cero
    ELSE [num |-> ValorDigitos(Quitar(s, ".")),
          dec |-> IF Cuenta(s, ".") = 1 THEN TrasSeparador(s, ".") ELSE 0]

\* parsear_monto_float where one comma is a decimal sign before exactly two
\* digits
parsear_monto_float_dos_exactos(texto) ==
    LET s == SoloNumerico(strip(texto))
    IN  IF s = << >> THEN Cero
        ELSE IF Cuenta(s, ",") > 0 /\ Cuenta(s, ".") > 0 THEN
            IF rfind(s, ",") > rfind(s, ".")
            THEN float(Reemplazar(Quitar(s, "."), ",", "."))
            ELSE float(Quitar(s, ","))
        ELSE IF Cuenta(s, ",") > 0 THEN
            IF Cuenta(s, ",") = 1 /\ TrasSeparador(s, ",") = 2
            THEN float(Reemplazar(s, ",", "."))
            ELSE float(Quitar(s, ","))
        ELSE IF Cuenta(s, ".") > 0 THEN
            IF Cuenta(s, ".") > 1 THEN float(Quitar(s, "."))
            ELSE IF TrasSeparador(s, ".") = 3 THEN float(Quitar(s, "."))
            ELSE IF TrasSeparador(s, ".") >= 4 THEN float(Quitar(s, "."))
            ELSE float(s)
        ELSE float(s)

parsear_monto_float(texto) ==
    LET s == SoloNumerico(strip(texto))
    IN  IF s = << >> THEN Cero
        ELSE IF Cuenta(s, ",") > 0 /\ Cuenta(s, ".") > 0 THEN
            IF rfind(s, ",") > rfind(s, ".")
            THEN float(Reemplazar(Quitar(s, "."), ",", "."))
            ELSE float(Quitar(s, ","))
        ELSE IF Cuenta(s, ",") > 0 THEN
            IF Cuenta(s, ",") = 1 /\ TrasSeparador(s, ",") <= 2
            THEN float(Reemplazar(s, ",", "."))
            ELSE float(Quitar(s, ","))
        ELSE IF Cuenta(s, ".") > 0 THEN
            IF Cuenta(s, ".") > 1 THEN float(Quitar(s, "."))
            ELSE IF TrasSeparador(s, ".") = 3 THEN float(Quitar(s, "."))
            ELSE IF TrasSeparador(s, ".") >= 4 THEN float(Quitar(s, "."))
            ELSE float(s)
        ELSE float(s)

\* extraer_solo_numeros_crudos: digits and separators kept; with both
\* separators and the dot last, dots and commas are swapped
extraer_solo_numeros_crudos(texto) ==
    LET s == SoloNumerico(texto)
    IN  IF Cuenta(s, ",") > 0 /\ Cuenta(s, ".") > 0 /\ rfind(s, ".") > rfind(s, ",")
        THEN [i \in 1..Len(s) |-> IF s[i] = "." THEN "," ELSE IF s[i] = "," THEN "." ELSE s[i]]
        ELSE s

limpiar_monto_sin_decimales(texto) ==
    LET s == extraer_solo_numeros_crudos(texto)
        idx == rfind(s, ",")
    IN  Quitar(IF idx # 0 THEN SubSeq(s, 1, idx - 1) ELSE s, ".")

\* str(n) of a natural number, as a cell of a sheet shows it
RECURSIVE TextoDeEntero(_)
TextoDeEntero(n) ==
    IF n < 10 THEN <<DigitosEnOrden[n + 1]>>
    ELSE TextoDeEntero(n \div 10) \o <<DigitosEnOrden[(n % 10) + 1]>>

\* str.lower on the letters of the model
lower(c) ==
    IF \E k \in 1..Len(Mayusculas) : Mayusculas[k] = c
    THEN Minusculas[CHOOSE k \in 1..Len(Mayusculas) : Mayusculas[k] = c]
    ELSE c

\* normalize: lower case, without spaces, hyphens and underscores
normalize(txt) ==
    LET t == SelectSeq(txt, LAMBDA c : c \notin {" ", "-", "_"})
    IN  [i \in 1..Len(t) |-> lower(t[i])]


(***************************************************************************)
(* The tabular store.  A cell is a text; a row of a period collection is   *)
(* a record of the columns the pipelines read or write:                    *)
(*   dni A(0), nombre B(1), fecha C(2), importe D(3), concepto E(4),       *)
(*   codigo F(5) (rows of ejecutar_carga_pagos only), cuota G(6),          *)
(*   total H(7), cartera I(8), cartera_cta J(9),                           *)
(*   operador L(11), montpago V(21), honorario Y(24).                      *)
(* A row of 'Pro' is a record of dni (2), nombre (3), operador (4),        *)
(* tipo (5), total (7), valor (8), cartera (9) and meses, the cells of     *)
(* the month columns that header_pro names.  A month header is kept as     *)
(* its words: tipo "pago" | "saldo" | "valor" (no such word), the month    *)
(* named and the number written as the year (-1: none).                    *)
(***************************************************************************)
\* nombre_hoja_mes: "<MESES_ES[mes_idx]> <last two digits of anio>"
nombre_hoja_mes(mes_idx, anio) == <<mes_idx, anio % 100>>

Ninguno == <<-1, -1>>

\* _parse_mes_anio_header: (mesIdx, anio) of a header, a year below 100
\* being of this century
parse_mes_anio_header(h) ==
    IF h.mes \in 0..11 /\ h.anio >= 0
    THEN <<h.mes, IF h.anio < 100 THEN h.anio + 2000 ELSE h.anio>>
    ELSE Ninguno

ClaveMes(par) == par[2] * 12 + par[1]

\* _get_pago_columns: the columns whose header holds "pago", a month and a
\* year, sorted by year*12+month (list.sort is stable)
RECURSIVE OrdenarPorClave(_, _)
OrdenarPorClave(cols, header) ==
    IF cols = {} THEN << >>
    ELSE LET k(c) == ClaveMes(parse_mes_anio_header(header[c]))
             m == CHOOSE c \in cols : \A d \in cols : k(d) > k(c) \/ (k(d) = k(c) /\ d >= c)
         IN  <<m>> \o OrdenarPorClave(cols \ {m}, header)

get_pago_columns(header) ==
    OrdenarPorClave({c \in 1..Len(header) :
                        /\ header[c].tipo = "pago"
                        /\ parse_mes_anio_header(header[c]) # Ninguno}, header)

\* a variant of _sumar_historia that also takes the column of the month itself
RECURSIVE sumar_historia_con_mes(_, _, _, _)
sumar_historia_con_mes(row_pro, header, pago_cols, key_mes_actual) ==
    IF pago_cols = << >> THEN Cero
    ELSE IF ClaveMes(parse_mes_anio_header(header[Head(pago_cols)])) > key_mes_actual THEN Cero
    ELSE Suma(parsear_monto_float(row_pro.meses[Head(pago_cols)]),
              sumar_historia_con_mes(row_pro, header, Tail(pago_cols), key_mes_actual))

\* _sumar_historia: the pago columns before key_mes_actual, in sorted
\* order, stopping at the first that is not before it
RECURSIVE sumar_historia(_, _, _, _)
sumar_historia(row_pro, header, pago_cols, key_mes_actual) ==
    IF pago_cols = << >> THEN Cero
    ELSE IF ClaveMes(parse_mes_anio_header(header[Head(pago_cols)])) >= key_mes_actual THEN Cero
    ELSE Suma(parsear_monto_float(row_pro.meses[Head(pago_cols)]),
              sumar_historia(row_pro, header, Tail(pago_cols), key_mes_actual))

\* _find_valor_cuota_col: first column of the month that is neither pago,
\* saldo nor cobra; 0 when there is none (-1 in the source)
find_valor_cuota_col(header, mes_idx, anio) ==
    LET cs == {c \in 1..Len(header) :
                  /\ header[c].tipo = "valor"
                  /\ parse_mes_anio_header(header[c]) = <<mes_idx, anio>>}
    IN  IF cs = {} THEN 0 ELSE Min(cs)

\* _unique_key
unique_key(dni, cartera) == normalize(dni) \o <<"_">> \o normalize(cartera)

\* mapa of ejecutar_cuotas_concepto: key -> index in Pro, a later row
\* replacing an earlier one with the same key; 0 when the key is absent
MapaCuotas(pro, key) ==
    Max({0} \cup {i \in 1..Len(pro) :
                     strip(pro[i].dni) # << >> /\ unique_key(strip(pro[i].dni), strip(pro[i].cartera)) = key})

\* int(row_pro[7]) with 999 for a text that is no integer or is below 1
SinCantidad == 999
CantCuotas(txt) ==
    LET t == strip(txt)
    IN  IF t # << >> /\ (\A k \in 1..Len(t) : IsDigit(t[k])) /\ ValorDigitos(t) >= 1
        THEN ValorDigitos(t) ELSE SinCantidad

\* round(a / b) of Python: to the nearest integer, a tie to the even one
RedondearCociente(a, b) ==
    LET k == EscalaComun(a, b)
        r == EnEscala(a, k)
        v == EnEscala(b, k)
        q == r \div v
        m == r % v
    IN  IF 2 * m > v THEN q + 1
        ELSE IF 2 * m < v THEN q
        ELSE IF q % 2 = 0 THEN q ELSE q + 1

\* int(a / b)
CocienteEntero(a, b) ==
    EnEscala(a, EscalaComun(a, b)) \div EnEscala(b, EscalaComun(a, b))

\* a % b
Resto(a, b) ==
    [num |-> EnEscala(a, EscalaComun(a, b)) % EnEscala(b, EscalaComun(a, b)),
     dec |-> EscalaComun(a, b)]

Tolerancia == 50
MargenExacto == 100

\* a variant of the decision that counts the started installment in the
\* "Cuota" case as it does in the "Parcial" case
ClasificarPorPiso(est, val, cant) ==
    IF MayorIgual(est, Resta(Por(val, cant), Entero(Tolerancia)))
    THEN [concepto |-> "Total", cuota |-> cant]
    ELSE IF Menor(est, Resta(val, Entero(Tolerancia)))
    THEN [concepto |-> "Parcial", cuota |-> 1]
    ELSE LET resto == Resto(est, val)
             es_exacto == \/ Menor(resto, Entero(MargenExacto))
                          \/ Menor(Resta(val, resto), Entero(MargenExacto))
             n == CocienteEntero(est, val) + 1
         IN  [concepto |-> IF es_exacto THEN "Cuota" ELSE "Parcial",
              cuota |-> IF n > cant THEN cant ELSE n]

\* the decision of lines 151-173: [concepto, cuota] of a running total
Clasificar(est, val, cant) ==
    IF MayorIgual(est, Resta(Por(val, cant), Entero(Tolerancia)))
    THEN [concepto |-> "Total", cuota |-> cant]
    ELSE IF Menor(est, Resta(val, Entero(Tolerancia)))
    THEN [concepto |-> "Parcial", cuota |-> 1]
    ELSE LET resto == Resto(est, val)
             es_exacto == \/ Menor(resto, Entero(MargenExacto))
                          \/ Menor(Resta(val, resto), Entero(MargenExacto))
             n == IF es_exacto THEN RedondearCociente(est, val)
                  ELSE CocienteEntero(est, val) + 1
         IN  [concepto |-> IF es_exacto THEN "Cuota" ELSE "Parcial",
              cuota |-> IF n > cant THEN cant ELSE n]

\* a variant of pago_fila that does not add again a row already marked "Total"
pago_fila_pendiente(row) ==
    IF row.concepto = "Total" THEN Cero ELSE parsear_monto_float(row.importe)

\* pago_fila: the amount of column D of a row of the month
pago_fila(row) == parsear_monto_float(row.importe)

SinEstado == [num |-> -1, dec |-> 0]
SinValor == [num |-> -1, dec |-> 0]

(***************************************************************************)
(* ejecutar_cuotas_concepto, one step per row of the month                 *)
(***************************************************************************)
MaxCorridas == 2

HojaActual == nombre_hoja_mes(ahora.mesIdx, ahora.anio)
KeyMesActual == ahora.anio * 12 + ahora.mesIdx

CuotasEnReposo ==
    /\ cq_pc = "reposo"
    /\ cq_i = 0
    /\ cq_corridas = 0
    /\ acumulador = << >>
    /\ conceptos = << >>
    /\ cuotas = << >>
    /\ actualizadas = 0
    /\ estado = SinEstado
    /\ val_cuota = SinValor
    /\ cant_cuotas = 0
    /\ concepto = ""
    /\ cuota = << >>

\* SheetsIO.obtener_o_crear_hoja_mes: the sheet exists afterwards; a sheet
\* that was missing is added with its header row and no data row
obtener_o_crear_hoja_mes(hs, nombre) ==
    IF nombre \in DOMAIN hs THEN hs ELSE (nombre :> << >>) @@ hs

\* lines 81-117: read Pro and the sheet of the month; return {"actualizadas": 0}
\* when Pro is empty, the month has no value column or the sheet has no rows.
\* leer_hoja_mes (line 109) goes through obtener_o_crear_hoja_mes.
CuotasInicio ==
    /\ cq_pc = "reposo"
    /\ cq_corridas < MaxCorridas
    /\ acumulador' = << >>
    /\ conceptos' = << >>
    /\ cuotas' = << >>
    /\ actualizadas' = 0
    /\ estado' = SinEstado
    /\ val_cuota' = SinValor
    /\ cant_cuotas' = 0
    /\ concepto' = ""
    /\ cuota' = << >>
    /\ IF \/ data_pro = << >>
          \/ find_valor_cuota_col(header_pro, ahora.mesIdx, ahora.anio) = 0
       THEN /\ cq_pc' = "reposo"
            /\ cq_i' = 0
            /\ cq_corridas' = cq_corridas + 1
            /\ UNCHANGED hojas
       ELSE /\ hojas' = obtener_o_crear_hoja_mes(hojas, HojaActual)
            /\ IF hojas'[HojaActual] = << >>
               THEN /\ cq_pc' = "reposo"
                    /\ cq_i' = 0
                    /\ cq_corridas' = cq_corridas + 1
               ELSE /\ cq_pc' = "filas"
                    /\ cq_i' = 1
                    /\ UNCHANGED cq_corridas
    /\ UNCHANGED <<varsParsers, header_pro, data_pro, ahora>>
    /\ UNCHANGED <<varsPipelines, varsPuros>>

\* lines 119-182: one row of data_mes
CuotasFila ==
    /\ cq_pc = "filas"
    /\ LET row == hojas[HojaActual][cq_i]
           dni == strip(row.dni)
           key == unique_key(dni, strip(row.cartera))
           idx_pro == MapaCuotas(data_pro, key)
           col_valor == find_valor_cuota_col(header_pro, ahora.mesIdx, ahora.anio)
       IN  /\ IF dni # << >> /\ idx_pro # 0
              THEN LET row_pro == data_pro[idx_pro]
                       cant == CantCuotas(row_pro.total)
                       val == parsear_monto_float(row_pro.meses[col_valor])
                   IN  /\ cant_cuotas' = cant
                       /\ val_cuota' = val
                       /\ IF Menor(Cero, val)
                          THEN LET historia == sumar_historia(row_pro, header_pro,
                                                   get_pago_columns(header_pro), KeyMesActual)
                                   acum_previo == IF key \in DOMAIN acumulador
                                                  THEN acumulador[key] ELSE Cero
                                   est == Suma(Suma(historia, acum_previo), pago_fila(row))
                                   dec == Clasificar(est, val, cant)
                               IN  /\ estado' = est
                                   /\ acumulador' = (key :> Suma(acum_previo, pago_fila(row))) @@ acumulador
                                   /\ concepto' = dec.concepto
                                   /\ cuota' = TextoDeEntero(dec.cuota)
                                   /\ actualizadas' = actualizadas + 1
                          ELSE /\ estado' = SinEstado
                               /\ concepto' = "Falta Valor"
                               /\ cuota' = << >>
                               /\ UNCHANGED <<acumulador, actualizadas>>
              ELSE /\ concepto' = IF dni # << >> THEN "No Match" ELSE ""
                   /\ cuota' = << >>
                   /\ estado' = SinEstado
                   /\ val_cuota' = SinValor
                   /\ cant_cuotas' = 0
                   /\ UNCHANGED <<acumulador, actualizadas>>
           /\ conceptos' = Append(conceptos, concepto')
           /\ cuotas' = Append(cuotas, cuota')
           /\ cq_i' = cq_i + 1
           /\ cq_pc' = IF cq_i = Len(hojas[HojaActual]) THEN "escribir" ELSE "filas"
    /\ UNCHANGED <<cq_corridas, varsParsers, varsStore>>
    /\ UNCHANGED <<varsPipelines, varsPuros>>

\* a write of column E alone
actualizar_columna_e(filas, col_e_vals, col_g_vals) ==
    [k \in 1..Len(filas) |->
        IF k <= Len(col_e_vals)
        THEN [filas[k] EXCEPT !.concepto = col_e_vals[k]]
        ELSE filas[k]]

\* SheetsIO.actualizar_dos_columnas_mes: columns E and G of rows 2..total+1
actualizar_dos_columnas_mes(filas, col_e_vals, col_g_vals) ==
    [k \in 1..Len(filas) |->
        IF k <= Len(col_e_vals)
        THEN [filas[k] EXCEPT !.concepto = col_e_vals[k], !.cuota = col_g_vals[k]]
        ELSE filas[k]]

\* lines 184-188: write both columns and return {"actualizadas": n}
CuotasEscribir ==
    /\ cq_pc = "escribir"
    /\ hojas' = [hojas EXCEPT ![HojaActual] =
                    actualizar_dos_columnas_mes(hojas[HojaActual], conceptos, cuotas)]
    /\ cq_pc' = "reposo"
    /\ cq_corridas' = cq_corridas + 1
    /\ UNCHANGED <<cq_i, acumulador, conceptos, cuotas, actualizadas, varsFila,
                   varsParsers, header_pro, data_pro, ahora>>
    /\ UNCHANGED <<varsPipelines, varsPuros>>

(***************************************************************************)
(* utils/parsers.py: dates.  A date is [dia, mesIdx, anio]; SinFecha is    *)
(* the None of the source.                                                 *)
(***************************************************************************)
MESES_ABREV ==
    <<<<"e", "n", "e">>, <<"f", "e", "b">>, <<"m", "a", "r">>, <<"a", "b", "r">>,
      <<"m", "a", "y">>, <<"j", "u", "n">>, <<"j", "u", "l">>, <<"a", "g", "o">>,
      <<"s", "e", "p">>, <<"o", "c", "t">>, <<"n", "o", "v">>, <<"d", "i", "c">>>>

SinFecha == [dia |-> 0, mesIdx |-> -1, anio |-> -1]

\* str.lower of a text
minusculas(s) == [i \in 1..Len(s) |-> lower(s[i])]

\* int(t) of a text: its value when, stripped, it is a run of digits; -1
\* where int raises ValueError
int(t) ==
    LET u == strip(t)
    IN  IF u # << >> /\ (\A k \in 1..Len(u) : IsDigit(u[k])) THEN ValorDigitos(u) ELSE -1

\* parsear_dia_mes_texto: 'DD-mmm' -> [dia, mesIdx] (anio -1), or SinFecha
parsear_dia_mes_texto(texto) ==
    LET fecha_de(t, mes, dia) ==
            IF Cuenta(t, "-") # 1 \/ dia = -1 THEN SinFecha
            ELSE IF (\E k \in 1..12 : MESES_ABREV[k] = mes) /\ dia >= 1 /\ dia <= 31
            THEN [dia |-> dia, mesIdx |-> (CHOOSE k \in 1..12 : MESES_ABREV[k] = mes) - 1,
                  anio |-> -1]
            ELSE SinFecha
        alias(mes_txt) == IF mes_txt = <<"s", "e", "p", "t">> THEN <<"s", "e", "p">> ELSE mes_txt
        partes(t, g) == fecha_de(t, alias(strip(SubSeq(t, g + 1, Len(t)))), int(SubSeq(t, 1, g - 1)))
        separar(t) == partes(t, rfind(t, "-"))
    IN  separar(minusculas(strip(texto)))

\* the separators [/\-\s] of the day-first pattern
EsSeparadorFecha(c) == c \in {"/", "-"} \/ IsSpace(c)

\* re.match(r"^(\d{1,2})[/\-\s](\d{1,2})[/\-\s](\d{2,4})(?:[ T].*)?$", s):
\* the three numbers <<dia, mes, anio>> as written, or << >> without a match
FechaDiaPrimero(s) ==
    LET grupos_de(n1, n2, n3, fin) ==
            IF /\ n1 \in 1..2 /\ n1 + 1 <= Len(s) /\ EsSeparadorFecha(s[n1 + 1])
               /\ n2 \in 1..2 /\ n1 + n2 + 2 <= Len(s) /\ EsSeparadorFecha(s[n1 + n2 + 2])
               /\ n3 \in 2..4
               /\ (fin > Len(s) \/ s[fin] \in {" ", "T"})
            THEN <<ValorDigitos(SubSeq(s, 1, n1)),
                   ValorDigitos(SubSeq(s, n1 + 2, n1 + n2 + 1)),
                   ValorDigitos(SubSeq(s, n1 + n2 + 3, fin - 1))>>
            ELSE << >>
        anio_de(n1, n2, n3) == grupos_de(n1, n2, n3, n1 + n2 + n3 + 3)
        mes_de(n1, n2) == anio_de(n1, n2, DigitRun(s, n1 + n2 + 3))
        dia_de(n1) == mes_de(n1, DigitRun(s, n1 + 2))
    IN  dia_de(DigitRun(s, 1))

\* re.match(r"^(\d{4})-(\d{1,2})-(\d{1,2})(?:[T\s].*)?$", s): <<anio, mes, dia>>
FechaIso(s) ==
    LET grupos_de(n2, n3, fin) ==
            IF /\ DigitRun(s, 1) = 4 /\ 5 <= Len(s) /\ s[5] = "-"
               /\ n2 \in 1..2 /\ n2 + 6 <= Len(s) /\ s[n2 + 6] = "-"
               /\ n3 \in 1..2
               /\ (fin > Len(s) \/ s[fin] = "T" \/ IsSpace(s[fin]))
            THEN <<ValorDigitos(SubSeq(s, 1, 4)),
                   ValorDigitos(SubSeq(s, 6, n2 + 5)),
                   ValorDigitos(SubSeq(s, n2 + 7, fin - 1))>>
            ELSE << >>
        dia_de(n2, n3) == grupos_de(n2, n3, n2 + n3 + 7)
        mes_de(n2) == dia_de(n2, DigitRun(s, n2 + 7))
    IN  mes_de(DigitRun(s, 6))

\* datetime.fromisoformat: a real day of the calendar written YYYYMMDD or
\* YYYY-MM-DD, alone or followed by one character and a time of day; every
\* other text raises ValueError (week dates, fractions of a second and UTC
\* offsets are not among the texts of the model)
DiasDelMes(mes, anio) ==
    IF mes = 2 THEN (IF anio % 4 = 0 /\ (anio % 100 # 0 \/ anio % 400 = 0) THEN 29 ELSE 28)
    ELSE IF mes \in {4, 6, 9, 11} THEN 30 ELSE 31

\* the time of day after the separator: HH, HHMM, HHMMSS, HH:MM or HH:MM:SS
HoraIso(t) ==
    LET dos(i) == IF i + 1 <= Len(t) /\ IsDigit(t[i]) /\ IsDigit(t[i + 1])
                  THEN ValorDigitos(SubSeq(t, i, i + 1)) ELSE 99
    IN  \/ Len(t) = 2 /\ dos(1) <= 23
        \/ Len(t) = 4 /\ dos(1) <= 23 /\ dos(3) <= 59
        \/ Len(t) = 6 /\ dos(1) <= 23 /\ dos(3) <= 59 /\ dos(5) <= 59
        \/ Len(t) = 5 /\ dos(1) <= 23 /\ t[3] = ":" /\ dos(4) <= 59
        \/ Len(t) = 8 /\ dos(1) <= 23 /\ t[3] = ":" /\ dos(4) <= 59 /\ t[6] = ":" /\ dos(7) <= 59

fromisoformat(s) ==
    LET fecha_de(compacta, extendida, n, anio, mes, dia) ==
            IF /\ compacta \/ extendida
               /\ anio >= 1 /\ mes \in 1..12 /\ dia >= 1 /\ dia <= DiasDelMes(mes, anio)
               /\ (Len(s) = n \/ HoraIso(SubSeq(s, n + 2, Len(s))))
            THEN [dia |-> dia, mesIdx |-> mes - 1, anio |-> anio]
            ELSE SinFecha
        partes_de(compacta) ==
            fecha_de(compacta,
                     /\ Len(s) >= 10 /\ DigitRun(s, 1) = 4 /\ s[5] = "-"
                     /\ DigitRun(s, 6) = 2 /\ s[8] = "-" /\ DigitRun(s, 9) >= 2,
                     IF compacta THEN 8 ELSE 10,
                     ValorDigitos(SubSeq(s, 1, 4)),
                     IF compacta THEN ValorDigitos(SubSeq(s, 5, 6)) ELSE ValorDigitos(SubSeq(s, 6, 7)),
                     IF compacta THEN ValorDigitos(SubSeq(s, 7, 8)) ELSE ValorDigitos(SubSeq(s, 9, 10)))
    IN  partes_de(Len(s) >= 8 /\ DigitRun(s, 1) >= 8)

\* parsear_fecha_flexible of a cell; anio_actual is datetime.now().year
parsear_fecha_flexible(input_val, anio_actual) ==
    LET fecha_de(s, a, b, c) ==
            IF s = << >> THEN SinFecha
            ELSE IF a # << >> /\ a[1] >= 1 /\ a[1] <= 31 /\ a[2] >= 1 /\ a[2] <= 12
            THEN [dia |-> a[1], mesIdx |-> a[2] - 1,
                  anio |-> IF a[3] < 100 THEN a[3] + 2000 ELSE a[3]]
            ELSE IF b # << >> /\ b[3] >= 1 /\ b[3] <= 31 /\ b[2] >= 1 /\ b[2] <= 12
            THEN [dia |-> b[3], mesIdx |-> b[2] - 1, anio |-> b[1]]
            ELSE IF c # SinFecha THEN [c EXCEPT !.anio = anio_actual]
            ELSE fromisoformat(s)
        intentos(s) == fecha_de(s, FechaDiaPrimero(s), FechaIso(s), parsear_dia_mes_texto(s))
    IN  intentos(strip(input_val))

\* formato_fecha_corta: 'DD-mmm'
formato_fecha_corta(dia, mes_idx) ==
    (IF dia < 10 THEN <<"0">> ELSE << >>) \o TextoDeEntero(dia) \o <<"-">> \o MESES_ABREV[mes_idx + 1]

(***************************************************************************)
(* pipelines/cargar_pagos.py: ejecutar_carga_pagos, one step per raw row   *)
(***************************************************************************)
MaxEjecuciones == 2
MaxFallas == 1
\* the second run takes place at most so many times
MaxOtras == 1

\* sub in s
Contiene(s, sub) ==
    \E i \in 1..(Len(s) - Len(sub) + 1) : SubSeq(s, i, i + Len(sub) - 1) = sub

\* normalize_canal: lower case, only letters and digits
normalize_canal(txt) ==
    SelectSeq(minusculas(txt), LAMBDA c : IsLetter(c) \/ IsDigit(c))

es_banco_comafi(txt) == Contiene(normalize_canal(txt), <<"c", "o", "m", "a", "f", "i">>)

\* _tipo_pago
tipo_pago(valor) ==
    LET txt == strip(minusculas(valor))
    IN  IF Contiene(txt, <<"c", "u", "o", "t", "a">>) THEN "Cuota"
        ELSE IF Contiene(txt, <<"p", "a", "r", "c", "i", "a", "l">>) THEN "Parcial"
        ELSE IF \/ Contiene(txt, <<"c", "a", "n", "c", "e", "l", "a", "c", "i", "ó", "n">>)
                \/ Contiene(txt, <<"c", "a", "n", "c", "e", "l", "a", "c", "i", "o", "n">>)
                \/ Contiene(txt, <<"t", "o", "t", "a", "l">>) THEN "Total"
        ELSE IF Contiene(txt, <<"a", "d", "e", "l", "a", "n", "t", "o">>) THEN "Adelanto/Anticipo"
        ELSE "No reconocido"

\* float(str(x).replace(".", "").replace(",", ".")), 0.0 where float raises
valor_simple(txt) ==
    LET t == strip(Reemplazar(Quitar(txt, "."), ",", "."))
    IN  IF \A k \in 1..Len(t) : IsDigit(t[k]) \/ t[k] = "." THEN float(t) ELSE Cero

\* _contar_cuotas_pagadas: the pago columns with a positive value to the
\* left of the first pago column that names the month
contar_cuotas_pagadas(row_pro, header, mes_idx) ==
    LET del_mes == {c \in 1..Len(header) : header[c].tipo = "pago" /\ header[c].mes = mes_idx}
        pago_col_idx == IF del_mes = {} THEN 0 ELSE Min(del_mes)
    IN  Cardinality({c \in 1..(pago_col_idx - 1) :
                        header[c].tipo = "pago" /\ Menor(Cero, valor_simple(row_pro.meses[c]))})

\* a variant of mapa_dni in which the first row of an identifier stays
mapa_dni_primera(pro, dni) ==
    LET idx == {i \in 1..Len(pro) : strip(pro[i].dni) # << >> /\ strip(pro[i].dni) = dni}
    IN  IF idx = {} THEN 0 ELSE Min(idx)

\* mapa_dni: identifier -> index in Pro, a later row replacing an earlier
\* one with the same identifier; 0 when the identifier is absent
mapa_dni(pro, dni) ==
    Max({0} \cup {i \in 1..Len(pro) : strip(pro[i].dni) # << >> /\ strip(pro[i].dni) = dni})

\* the sheet of a month: its data rows, none when the sheet does not exist
leer_hoja_sin_header(nombre) == IF nombre \in DOMAIN hojas THEN hojas[nombre] ELSE << >>

\* lines 279-285: the keys of the rows of a sheet
claves_existentes(data_mes) ==
    {<<strip(data_mes[r].dni), parsear_dia_mes_texto(data_mes[r].fecha).dia,
       parsear_dia_mes_texto(data_mes[r].fecha).mesIdx>> :
        r \in {q \in 1..Len(data_mes) :
                  strip(data_mes[q].dni) # << >> /\ parsear_dia_mes_texto(data_mes[q].fecha) # SinFecha}}

\* _codigo_tipo: the code of column F
codigo_tipo(tipo) ==
    IF tipo = "Total" THEN "PGTOT"
    ELSE IF tipo \in {"Adelanto/Anticipo", "Cuota"} THEN "PGPREF"
    ELSE IF tipo = "Parcial" THEN "PGPR"
    ELSE "VER"

\* the type kept as classified
degradar_nunca(tipo0, monto_num, total_pactado, valor_cuota) == tipo0

\* lines 325-328: Total and Cuota become Parcial for a positive amount below
\* the total, below the installment value
degradar(tipo0, monto_num, total_pactado, valor_cuota) ==
    LET segunda(tipo1) ==
            IF tipo1 = "Cuota" /\ Menor(Cero, monto_num) /\ Menor(monto_num, valor_cuota)
            THEN "Parcial" ELSE tipo1
    IN  segunda(IF tipo0 = "Total" /\ Menor(Cero, monto_num) /\ Menor(monto_num, total_pactado)
                THEN "Parcial" ELSE tipo0)

\* lines 297-373: the row built for a receipt
nueva_fila(dni, row_pro, header, fecha, monto_raw) ==
    LET tipo == degradar(tipo_pago(row_pro.tipo), parsear_monto_float(monto_raw),
                         parsear_monto_float(row_pro.total), parsear_monto_float(row_pro.valor))
    IN  [dni |-> dni,
         nombre |-> row_pro.nombre,
         fecha |-> formato_fecha_corta(fecha.dia, fecha.mesIdx),
         importe |-> extraer_solo_numeros_crudos(monto_raw),
         concepto |-> tipo,
         codigo |-> codigo_tipo(tipo),
         cuota |-> TextoDeEntero(contar_cuotas_pagadas(row_pro, header, fecha.mesIdx) + 1),
         total |-> row_pro.total,
         cartera |-> IF es_banco_comafi(strip(row_pro.cartera))
                     THEN <<"C", "o", "m", "a", "f", "i">> ELSE strip(row_pro.cartera),
         cartera_cta |-> << >>,
         operador |-> row_pro.operador,
         montpago |-> limpiar_monto_sin_decimales(monto_raw),
         honorario |-> << >>]

\* lines 287-288: the sheet gets its list of rows to append
con_hoja(fph, hoja_nombre) ==
    IF \E k \in 1..Len(fph) : fph[k].hoja = hoja_nombre
    THEN fph
    ELSE Append(fph, [hoja |-> hoja_nombre, filas |-> << >>])

\* a variant of line 375 that queues the row twice
encolar_dos_veces(fph, hoja_nombre, fila) ==
    [k \in 1..Len(fph) |->
        IF fph[k].hoja = hoja_nombre
        THEN [fph[k] EXCEPT !.filas = Append(Append(@, fila), fila)]
        ELSE fph[k]]

\* line 375: filas_por_hoja[hoja_nombre].append(nueva_fila)
encolar(fph, hoja_nombre, fila) ==
    [k \in 1..Len(fph) |->
        IF fph[k].hoja = hoja_nombre
        THEN [fph[k] EXCEPT !.filas = Append(@, fila)]
        ELSE fph[k]]

\* a variant of the except clause that records no status
except_fila_muda(ests) == ests

\* lines 380-381: the except clause records the status of the row
except_fila(ests) == Append(ests, <<"Error">>)

\* a run of either loader starts when none is running
NadaCorriendo == cp_pc = "reposo" /\ hn_pc = "reposo"

\* lines 218-243: read both sheets; return at once when either is empty
CargaInicio ==
    /\ NadaCorriendo
    /\ ejecuciones < MaxEjecuciones
    /\ ejecuciones' = ejecuciones + 1
    /\ existing_entries' = << >>
    /\ filas_por_hoja' = << >>
    /\ estados' = << >>
    /\ cargados' = 0
    /\ duplicados' = 0
    /\ errores' = 0
    /\ \/ \* leer_info_imagenes or leer_pro raises
          /\ fallas < MaxFallas
          /\ fallas' = fallas + 1
          /\ cp_resultado' = [tipo |-> "excepcion"]
          /\ info_data' = << >>
          /\ pro_leido' = << >>
          /\ cp_pc' = "reposo"
          /\ cp_i' = 0
       \/ /\ UNCHANGED fallas
          /\ info_data' = info
          /\ pro_leido' = data_pro
          /\ IF info = << >> \/ data_pro = << >>
             THEN /\ cp_resultado' = [tipo |-> "retorno", cargados |-> 0, duplicados |-> 0,
                                      errores |-> 0,
                                      detalle |-> IF info = << >> THEN "" ELSE "Hoja Pro vacía"]
                  /\ cp_pc' = "reposo"
                  /\ cp_i' = 0
             ELSE /\ UNCHANGED cp_resultado
                  /\ cp_pc' = "filas"
                  /\ cp_i' = 1
    /\ UNCHANGED <<varsPuros, varsParsers, varsStore, varsCuotas, varsFila, info, varsHon>>

\* lines 245-383: the body of the loop for the raw row cp_i
CargaFila ==
    /\ cp_pc = "filas"
    /\ LET row == info_data[cp_i]
           dni == extraer_dni_desde_archivo(strip(row.archivo))
           fecha == parsear_fecha_flexible(row.fecha, ahora.anio)
           hoja_nombre == nombre_hoja_mes(fecha.mesIdx, fecha.anio)
           clave == <<dni, fecha.dia, fecha.mesIdx>>
           cargar == hoja_nombre \notin DOMAIN existing_entries
       IN  IF dni = << >>
           THEN /\ estados' = Append(estados, <<"DNI inválido en archivo">>)
                /\ UNCHANGED <<existing_entries, filas_por_hoja, cargados, duplicados, errores, fallas>>
           ELSE IF mapa_dni(pro_leido, dni) = 0
           THEN /\ estados' = Append(estados, <<"No existe en PRO">>)
                /\ errores' = errores + 1
                /\ UNCHANGED <<existing_entries, filas_por_hoja, cargados, duplicados, fallas>>
           ELSE IF fecha = SinFecha
           THEN /\ estados' = Append(estados, <<"Fecha inválida">>)
                /\ errores' = errores + 1
                /\ UNCHANGED <<existing_entries, filas_por_hoja, cargados, duplicados, fallas>>
           ELSE \/ \* lines 277-278 and 380-383: the set is installed empty, the
                   \* read raises and the except clause takes the row
                   /\ cargar
                   /\ fallas < MaxFallas
                   /\ fallas' = fallas + 1
                   /\ existing_entries' = (hoja_nombre :> {}) @@ existing_entries
                   /\ estados' = except_fila(estados)
                   /\ errores' = errores + 1
                   /\ UNCHANGED <<filas_por_hoja, cargados, duplicados>>
                \/ LET existentes == IF cargar
                                     THEN claves_existentes(leer_hoja_sin_header(hoja_nombre))
                                     ELSE existing_entries[hoja_nombre]
                       filas == con_hoja(filas_por_hoja, hoja_nombre)
                   IN  /\ UNCHANGED fallas
                       /\ IF clave \in existentes
                          THEN /\ estados' = Append(estados, <<"Duplicado en", hoja_nombre>>)
                               /\ duplicados' = duplicados + 1
                               /\ existing_entries' = (hoja_nombre :> existentes) @@ existing_entries
                               /\ filas_por_hoja' = filas
                               /\ UNCHANGED <<cargados, errores>>
                          ELSE /\ estados' = Append(estados, <<"OK", hoja_nombre>>)
                               /\ cargados' = cargados + 1
                               /\ existing_entries' =
                                      (hoja_nombre :> (existentes \cup {clave})) @@ existing_entries
                               /\ filas_por_hoja' =
                                      encolar(filas, hoja_nombre,
                                              nueva_fila(dni, pro_leido[mapa_dni(pro_leido, dni)],
                                                         header_pro, fecha, row.monto))
                               /\ UNCHANGED <<duplicados, errores>>
    /\ cp_i' = cp_i + 1
    /\ cp_pc' = IF cp_i = Len(info_data) THEN "escribir" ELSE "filas"
    /\ UNCHANGED <<varsPuros, varsParsers, varsStore, varsCuotas, varsFila, info, ejecuciones,
                   info_data, pro_leido, cp_resultado, varsHon>>

\* a variant of the except clause of the status writers that raises again
except_estado_relanza(res) == [tipo |-> "excepcion"]

\* sheets_io.py 161-162 and 189-190: the except clause of the status writers
\* logs the failure; the caller goes on to its return
except_estado(res) == res

\* a writer that puts the new rows above the rows of the sheet
RECURSIVE escribir_filas_al_inicio(_, _, _)
escribir_filas_al_inicio(hs, fph, k) ==
    IF k = 0 THEN hs
    ELSE LET antes == escribir_filas_al_inicio(hs, fph, k - 1)
             nombre == fph[k].hoja
         IN  IF nombre \in DOMAIN antes
             THEN [antes EXCEPT ![nombre] = fph[k].filas \o @]
             ELSE (nombre :> fph[k].filas) @@ antes

\* escribir_filas_mes for the first k entries of filas_por_hoja
RECURSIVE escribir_filas_mes(_, _, _)
escribir_filas_mes(hs, fph, k) ==
    IF k = 0 THEN hs
    ELSE LET antes == escribir_filas_mes(hs, fph, k - 1)
             nombre == fph[k].hoja
         IN  IF nombre \in DOMAIN antes
             THEN [antes EXCEPT ![nombre] = @ \o fph[k].filas]
             ELSE (nombre :> fph[k].filas) @@ antes

\* escribir_estado_info: column P of rows 2..len(estados)+1
escribir_estado_info(filas_info, ests) ==
    [i \in 1..Len(filas_info) |->
        IF i <= Len(ests) THEN [filas_info[i] EXCEPT !.p = ests[i]] ELSE filas_info[i]]

\* lines 385-399: append the rows sheet by sheet, write the statuses (a
\* failure of that write is swallowed) and return the counts; a failing
\* append raises out of the run
CargaEscribir ==
    /\ cp_pc = "escribir"
    /\ cp_pc' = "reposo"
    /\ \/ \E k \in 1..Len(filas_por_hoja) :
             /\ filas_por_hoja[k].filas # << >>
             /\ fallas < MaxFallas
             /\ fallas' = fallas + 1
             /\ hojas' = escribir_filas_mes(hojas, filas_por_hoja, k - 1)
             /\ cp_resultado' = [tipo |-> "excepcion"]
             /\ UNCHANGED info
       \/ LET res == [tipo |-> "retorno", cargados |-> cargados,
                      duplicados |-> duplicados, errores |-> errores,
                      detalle |-> IF errores = 0 THEN "" ELSE "filas con error"]
          IN  /\ hojas' = escribir_filas_mes(hojas, filas_por_hoja, Len(filas_por_hoja))
              /\ \/ /\ info' = escribir_estado_info(info, estados)
                    /\ cp_resultado' = res
                    /\ UNCHANGED fallas
                 \/ /\ fallas < MaxFallas
                    /\ fallas' = fallas + 1
                    /\ cp_resultado' = except_estado(res)
                    /\ UNCHANGED info
    /\ UNCHANGED <<varsPuros, varsParsers, header_pro, data_pro, ahora, varsCuotas, varsFila, ejecuciones,
                   cp_i, info_data, pro_leido, existing_entries, filas_por_hoja, estados,
                   cargados, duplicados, errores, varsHon>>

(***************************************************************************)
(* pipelines/pago_honorario.py: ejecutar_honorarios, one step per month    *)
(***************************************************************************)
\* _mes_anterior
mes_anterior(anio, mes_idx) ==
    IF mes_idx <= 0 THEN [anio |-> anio - 1, mesIdx |-> 11]
    ELSE [anio |-> anio, mesIdx |-> mes_idx - 1]

\* _is_truthy of a cell read as text
is_truthy(v) ==
    minusculas(strip(v)) \in
        {<<"t", "r", "u", "e">>, <<"v", "e", "r", "d", "a", "d", "e", "r", "o">>, <<"1">>,
         <<"y", "e", "s">>, <<"y">>, <<"s", "i">>, <<"s", "í">>}

\* _es_honorario_existente: Y truthy or J with a value
es_honorario_existente(row_vals) ==
    is_truthy(row_vals.honorario) \/ strip(row_vals.cartera_cta) # << >>

\* _build_dedupe_key
build_dedupe_key(dni, dia, mes_idx, monto_raw) ==
    <<dni, dia, mes_idx, limpiar_monto_sin_decimales(monto_raw)>>

\* lines 80-81: the row was settled by an earlier run (a mark is kept as
\* its words: "HON OK" | "HON DUP" | "HON ERROR", then the names it cites)
ya_resuelto(q) == q # << >> /\ q[1] \in {"HON OK", "HON DUP"}

\* lines 77-109 for the raw rows 1..n: the groups, in order of first
\* appearance, and the marks of the rows refused
RECURSIVE prefiltrar(_, _, _)
prefiltrar(filas_info, n, anio_actual) ==
    IF n = 0 THEN [grupos |-> << >>, marcas |-> << >>]
    ELSE LET agrupar(antes, gs, esta, fecha, it) ==
                 IF esta = {}
                 THEN [antes EXCEPT !.grupos =
                          Append(@, [anio |-> fecha.anio, mesIdx |-> fecha.mesIdx, items |-> <<it>>])]
                 ELSE [antes EXCEPT !.grupos =
                          [k \in 1..Len(gs) |->
                              IF k \in esta THEN [gs[k] EXCEPT !.items = Append(@, it)] ELSE gs[k]]]
             fila(antes, row, dni, fecha) ==
                 IF ya_resuelto(row.q) \/ dni = << >> THEN antes
                 ELSE IF fecha = SinFecha
                 THEN [antes EXCEPT !.marcas = (n :> <<"HON ERROR", "Fecha inválida">>) @@ @]
                 ELSE IF strip(row.monto) = << >>
                 THEN [antes EXCEPT !.marcas = (n :> <<"HON ERROR", "Monto vacío">>) @@ @]
                 ELSE agrupar(antes, antes.grupos,
                              {k \in 1..Len(antes.grupos) :
                                  /\ antes.grupos[k].anio = fecha.anio
                                  /\ antes.grupos[k].mesIdx = fecha.mesIdx},
                              fecha,
                              [idx |-> n, dni |-> dni, monto_raw |-> row.monto,
                               dia |-> fecha.dia, mesIdx |-> fecha.mesIdx, anio |-> fecha.anio])
         IN  fila(prefiltrar(filas_info, n - 1, anio_actual), filas_info[n],
                  extraer_dni_honorario(strip(filas_info[n].archivo)),
                  parsear_fecha_flexible(filas_info[n].fecha, anio_actual))

\* escribir_estado_info_imagenes_col_q: column Q of the rows marked
escribir_estado_info_imagenes_col_q(filas_info, marcas) ==
    [i \in 1..Len(filas_info) |->
        IF i \in DOMAIN marcas THEN [filas_info[i] EXCEPT !.q = marcas[i]] ELSE filas_info[i]]

\* a variant of last_row_by_dni that keeps the top-most row
first_row_by_dni(data, dni) ==
    LET idx == {r \in 1..Len(data) : strip(data[r].dni) = dni}
    IN  IF idx = {} THEN 0 ELSE Min(idx)

\* lines 134-144 and 203-206: the bottom-most row of a sheet with the
\* identifier, 0 when there is none
last_row_by_dni(data, dni) ==
    Max({0} \cup {r \in 1..Len(data) : strip(data[r].dni) = dni})

\* lines 134-165: the keys of the honorarium rows of a sheet
honorario_keys(data) ==
    {build_dedupe_key(strip(data[r].dni), parsear_dia_mes_texto(data[r].fecha).dia,
                      parsear_dia_mes_texto(data[r].fecha).mesIdx, data[r].montpago) :
        r \in {q \in 1..Len(data) :
                  /\ strip(data[q].dni) # << >>
                  /\ es_honorario_existente(data[q])
                  /\ parsear_dia_mes_texto(data[q].fecha) # SinFecha}}

\* lines 216-231: the clone of the base row
fila_honorario(base_row, monto_raw) ==
    [base_row EXCEPT !.importe = extraer_solo_numeros_crudos(monto_raw),
                     !.montpago = limpiar_monto_sin_decimales(monto_raw),
                     !.honorario = <<"T", "R", "U", "E">>]

\* lines 176-242 for the items 1..n of a group: keys, rows to append,
\* counts and marks; usa_prev tells that the sheet of the month before was
\* read
RECURSIVE procesar_items(_, _, _, _, _)
procesar_items(items, n, hoja_nombre, data_mes, prev_data) ==
    IF n = 0
    THEN [keys |-> honorario_keys(data_mes), appends |-> << >>, procesados |-> 0,
          duplicados |-> 0, sin_base |-> 0, marcas |-> << >>, usa_prev |-> FALSE]
    ELSE LET antes == procesar_items(items, n - 1, hoja_nombre, data_mes, prev_data)
             it == items[n]
             dup_key == build_dedupe_key(it.dni, it.dia, it.mesIdx, it.monto_raw)
             aqui == last_row_by_dni(data_mes, it.dni)
             prev == last_row_by_dni(prev_data, it.dni)
             prev_nombre == nombre_hoja_mes(mes_anterior(it.anio, it.mesIdx).mesIdx,
                                            mes_anterior(it.anio, it.mesIdx).anio)
         IN  IF dup_key \in antes.keys
             THEN [antes EXCEPT !.duplicados = @ + 1,
                                !.marcas = (it.idx :> <<"HON DUP", hoja_nombre>>) @@ @]
             ELSE IF aqui # 0
             THEN [antes EXCEPT !.appends = Append(@, fila_honorario(data_mes[aqui], it.monto_raw)),
                                !.keys = @ \cup {dup_key},
                                !.procesados = @ + 1,
                                !.marcas = (it.idx :> <<"HON OK", hoja_nombre>>) @@ @]
             ELSE IF prev # 0
             THEN [antes EXCEPT !.appends = Append(@, fila_honorario(prev_data[prev], it.monto_raw)),
                                !.keys = @ \cup {dup_key},
                                !.procesados = @ + 1,
                                !.marcas = (it.idx :> <<"HON OK", hoja_nombre, prev_nombre>>) @@ @,
                                !.usa_prev = TRUE]
             ELSE [antes EXCEPT !.sin_base = @ + 1,
                                !.marcas = (it.idx :> <<"HON ERROR", "Sin registro base">>) @@ @,
                                !.usa_prev = TRUE]

\* lines 67-116: read the raw rows, filter and group them; without groups,
\* write the marks (a failure of that write is swallowed) and return
HonInicio ==
    /\ NadaCorriendo
    /\ ejecuciones < MaxEjecuciones
    /\ ejecuciones' = ejecuciones + 1
    /\ procesados' = 0
    /\ hn_duplicados' = 0
    /\ sin_base' = 0
    /\ \/ \* leer_info_imagenes raises
          /\ fallas < MaxFallas
          /\ fallas' = fallas + 1
          /\ hn_resultado' = [tipo |-> "excepcion"]
          /\ grupos' = << >>
          /\ marcas_q' = << >>
          /\ hn_pc' = "reposo"
          /\ hn_g' = 0
          /\ UNCHANGED info
       \/ LET pre == prefiltrar(info, Len(info), ahora.anio)
          IN  /\ grupos' = pre.grupos
              /\ marcas_q' = pre.marcas
              /\ IF pre.grupos = << >>
                 THEN /\ hn_pc' = "reposo"
                      /\ hn_g' = 0
                      /\ \/ /\ info' = escribir_estado_info_imagenes_col_q(info, pre.marcas)
                            /\ hn_resultado' = [tipo |-> "retorno", procesados |-> 0,
                                                duplicados |-> 0, sin_base |-> 0]
                            /\ UNCHANGED fallas
                         \/ /\ DOMAIN pre.marcas # {}
                            /\ fallas < MaxFallas
                            /\ fallas' = fallas + 1
                            /\ hn_resultado' =
                                   except_estado([tipo |-> "retorno", procesados |-> 0,
                                                  duplicados |-> 0, sin_base |-> 0])
                            /\ UNCHANGED info
                 ELSE /\ hn_pc' = "grupos"
                      /\ hn_g' = 1
                      /\ UNCHANGED <<hn_resultado, info, fallas>>
    /\ UNCHANGED <<varsPuros, varsParsers, header_pro, data_pro, hojas, ahora, varsCuotas, varsFila, varsCarga>>

\* lines 121-245: one month: read its sheet, process its items, append
\* their rows; a failing read or append raises out of the run
HonGrupo ==
    /\ hn_pc = "grupos"
    /\ LET g == grupos[hn_g]
           hoja_nombre == nombre_hoja_mes(g.mesIdx, g.anio)
           prev_nombre == nombre_hoja_mes(mes_anterior(g.anio, g.mesIdx).mesIdx,
                                          mes_anterior(g.anio, g.mesIdx).anio)
           con_mes == obtener_o_crear_hoja_mes(hojas, hoja_nombre)
           con_prev == obtener_o_crear_hoja_mes(con_mes, prev_nombre)
           res == procesar_items(g.items, Len(g.items), hoja_nombre,
                                 con_mes[hoja_nombre], con_prev[prev_nombre])
           leidas == IF res.usa_prev THEN con_prev ELSE con_mes
       IN  \/ \* leer_hoja_mes of the month raises
              /\ fallas < MaxFallas
              /\ fallas' = fallas + 1
              /\ hn_resultado' = [tipo |-> "excepcion"]
              /\ hn_pc' = "reposo"
              /\ UNCHANGED <<hojas, hn_g, marcas_q, procesados, hn_duplicados, sin_base>>
           \/ \* leer_hoja_mes of the month before raises
              /\ res.usa_prev
              /\ fallas < MaxFallas
              /\ fallas' = fallas + 1
              /\ hn_resultado' = [tipo |-> "excepcion"]
              /\ hn_pc' = "reposo"
              /\ hojas' = con_mes
              /\ UNCHANGED <<hn_g, marcas_q, procesados, hn_duplicados, sin_base>>
           \/ \* escribir_filas_mes raises
              /\ res.appends # << >>
              /\ fallas < MaxFallas
              /\ fallas' = fallas + 1
              /\ hn_resultado' = [tipo |-> "excepcion"]
              /\ hn_pc' = "reposo"
              /\ hojas' = leidas
              /\ UNCHANGED <<hn_g, marcas_q, procesados, hn_duplicados, sin_base>>
           \/ /\ hojas' = [leidas EXCEPT ![hoja_nombre] = @ \o res.appends]
              /\ marcas_q' = res.marcas @@ marcas_q
              /\ procesados' = procesados + res.procesados
              /\ hn_duplicados' = hn_duplicados + res.duplicados
              /\ sin_base' = sin_base + res.sin_base
              /\ hn_g' = hn_g + 1
              /\ hn_pc' = IF hn_g = Len(grupos) THEN "estado" ELSE "grupos"
              /\ UNCHANGED <<fallas, hn_resultado>>
    /\ UNCHANGED <<varsPuros, varsParsers, header_pro, data_pro, ahora, varsCuotas, varsFila, varsCarga,
                   info, ejecuciones, grupos>>

\* lines 250-254: write the marks (a failure is swallowed), return the counts
HonEstado ==
    /\ hn_pc = "estado"
    /\ hn_pc' = "reposo"
    /\ \/ /\ info' = escribir_estado_info_imagenes_col_q(info, marcas_q)
          /\ hn_resultado' = [tipo |-> "retorno", procesados |-> procesados,
                              duplicados |-> hn_duplicados, sin_base |-> sin_base]
          /\ UNCHANGED fallas
       \/ /\ fallas < MaxFallas
          /\ fallas' = fallas + 1
          /\ hn_resultado' = except_estado([tipo |-> "retorno", procesados |-> procesados,
                                            duplicados |-> hn_duplicados, sin_base |-> sin_base])
          /\ UNCHANGED info
    /\ UNCHANGED <<varsPuros, varsParsers, varsStore, varsCuotas, varsFila, varsCarga, ejecuciones,
                   hn_g, grupos, marcas_q, procesados, hn_duplicados, sin_base>>

(***************************************************************************)
(* Test data: identifiers, portfolios, amounts                             *)
(***************************************************************************)
DniA == [k \in 1..MinDni |-> "1"]
DniB == [k \in 1..MinDni |-> "2"]
CarteraComafi == <<"C", "o", "m", "a", "f", "i">>
CarteraComafiMin == <<"c", "o", "m", "a", "f", "i", " ">>
CarteraExi == <<"E", "x", "i">>
Txt50 == <<"5", "0">>
Txt100 == <<"1", "0", "0">>
Txt200 == <<"2", "0", "0">>
Txt400 == <<"4", "0", "0">>
Txt500 == <<"5", "0", "0">>
Txt800 == <<"8", "0", "0">>
Txt1000 == <<"1", ".", "0", "0", "0">>
Txt1000con50 == <<"1", ".", "0", "0", "0", ",", "5", "0">>
Txt2000 == <<"2", ".", "0", "0", "0">>
Txt7000 == <<"7", ".", "0", "0", "0">>
Txt3 == <<"3">>
Txt7 == <<"7">>
Txt05mar == <<"0", "5", "-", "m", "a", "r">>

\* the period collections of the model
NombresHoja == {<<1, 25>>, <<2, 25>>, <<11, 25>>, <<0, 26>>}

FilaMes(dni, cartera, importe, conc, cta) ==
    [dni |-> dni, nombre |-> << >>, fecha |-> Txt05mar, importe |-> importe,
     concepto |-> conc, cuota |-> cta, total |-> << >>, cartera |-> cartera,
     cartera_cta |-> << >>, operador |-> << >>,
     montpago |-> limpiar_monto_sin_decimales(importe), honorario |-> << >>]

FilaPro(dni, cartera, total, meses) ==
    [dni |-> dni, nombre |-> <<"a">>, operador |-> <<"o">>, tipo |-> << >>,
     total |-> total, valor |-> << >>, cartera |-> cartera, meses |-> meses]

Encabezado(tipo, mes, anio) == [tipo |-> tipo, mes |-> mes, anio |-> anio]

(***************************************************************************)
(* SpecCuotas: ejecutar_cuotas_concepto, run up to MaxCorridas times over  *)
(* a month whose rows carry any earlier concept and installment values     *)
(***************************************************************************)
MaxFilas == 3

\* month columns in no chronological order, February in two years
HeaderCompleto ==
    <<Encabezado("valor", 2, 25), Encabezado("pago", 0, 26), Encabezado("pago", 1, 25),
      Encabezado("pago", 2, 25), Encabezado("valor", 0, 26), Encabezado("pago", 1, 2024)>>
\* the same without a value column for January 26
HeaderSinValorEnero ==
    [HeaderCompleto EXCEPT ![5] = Encabezado("saldo", 0, 26)]

ProComafi == FilaPro(DniA, CarteraComafi, Txt3, <<Txt1000, Txt100, Txt200, Txt400, Txt1000, Txt800>>)
ProComafiViejo == FilaPro(DniA, CarteraComafi, Txt7, <<Txt7000, Txt7000, Txt7000, Txt7000, Txt7000, Txt7000>>)
ProExi == FilaPro(DniA, CarteraExi, << >>, <<<< >>, << >>, Txt50, << >>, Txt2000, << >>>>)
LedgersPrueba ==
    {<< >>, <<ProComafi>>, <<ProComafi, ProExi>>, <<ProComafiViejo, ProExi, ProComafi>>}

FilasPrueba ==
    {FilaMes(DniA, CarteraComafi, Txt500, "", << >>),
     FilaMes(DniA, CarteraComafi, Txt1000con50, "Total", Txt3),
     FilaMes(DniA, CarteraComafiMin, Txt500, "Cuota", Txt7),
     FilaMes(DniA, CarteraExi, Txt500, "", << >>),
     FilaMes(DniB, CarteraComafi, Txt1000, "", << >>),
     FilaMes(<< >>, CarteraComafi, Txt500, "Parcial", <<"1">>)}

\* the rows of a period that is not the month of the run
OtraHoja == <<FilaMes(DniA, CarteraComafi, Txt500, "", << >>)>>

InitCuotas ==
    /\ archivo = << >>
    /\ dni_normal = Pendiente
    /\ dni_honorario = Pendiente
    /\ PurosSinUso
    /\ header_pro \in {HeaderCompleto, HeaderSinValorEnero}
    /\ data_pro \in LedgersPrueba
    /\ ahora \in {[mesIdx |-> 2, anio |-> 2025], [mesIdx |-> 0, anio |-> 2026]}
    /\ \/ \E filas \in UNION {[1..n -> FilasPrueba] : n \in 0..MaxFilas} :
             hojas = [h \in NombresHoja |-> IF h = HojaActual THEN filas ELSE OtraHoja]
       \/ hojas = [h \in NombresHoja \ {HojaActual} |-> OtraHoja]
    /\ CuotasEnReposo
    /\ PipelinesSinUso

NextCuotas == CuotasInicio \/ CuotasFila \/ CuotasEscribir

SpecCuotas == InitCuotas /\ [][NextCuotas]_vars

\* C3: a run that follows another run over unchanged data writes, in every
\* row, the concept and installment number that are already there.
C3_Idempotente ==
    [][(cq_pc = "escribir" /\ cq_corridas >= 1) => hojas' = hojas]_vars

\* a second run has written a month of two rows or more, one of them classified
C3_Testigo ==
    /\ cq_corridas = 2
    /\ cq_pc = "reposo"
    /\ Len(conceptos) >= 2
    /\ \E k \in 1..Len(hojas[HojaActual]) :
          hojas[HojaActual][k].concepto \in {"Total", "Parcial", "Cuota"}

\* the contract of a row of the month: the last row of Pro with the row's
\* identifier and portfolio (compared without case, spaces, - and _)
ContratoDe(fila) ==
    Max({0} \cup {i \in 1..Len(data_pro) :
                     /\ strip(data_pro[i].dni) # << >>
                     /\ normalize(data_pro[i].dni) = normalize(fila.dni)
                     /\ normalize(data_pro[i].cartera) = normalize(fila.cartera)})

RECURSIVE SumaDe(_, _)
SumaDe(S, f) ==
    IF S = {} THEN Cero
    ELSE LET x == CHOOSE y \in S : TRUE
         IN  Suma(f[x], SumaDe(S \ {x}, f))

\* the payments of a contract in the periods before the month
HistoriaAnterior(row_pro) ==
    LET antes == {c \in 1..Len(header_pro) :
                    /\ header_pro[c].tipo = "pago"
                    /\ header_pro[c].anio >= 0
                    /\ (IF header_pro[c].anio < 100 THEN 2000 + header_pro[c].anio
                        ELSE header_pro[c].anio) * 12 + header_pro[c].mes
                           < ahora.anio * 12 + ahora.mesIdx}
    IN  SumaDe(antes, [c \in antes |-> parsear_monto_float(row_pro.meses[c])])

\* C5: the running total of the row just processed is the contract's
\* payments of the earlier periods plus the amounts of the rows of the month,
\* down to that row, that belong to the same contract.
C5_Acumulado ==
    (cq_pc \in {"filas", "escribir"} /\ cq_i > 1 /\ estado # SinEstado) =>
        LET filas == hojas[HojaActual]
            k == cq_i - 1
            mismas == {j \in 1..k : ContratoDe(filas[j]) = ContratoDe(filas[k])}
        IN  Igual(estado,
                  Suma(HistoriaAnterior(data_pro[ContratoDe(filas[k])]),
                       SumaDe(mismas, [j \in mismas |-> parsear_monto_float(filas[j].importe)])))

\* the second row of a contract with earlier payments, after a row of
\* another contract
C5_Testigo ==
    /\ cq_pc \in {"filas", "escribir"}
    /\ cq_i = 3
    /\ estado # SinEstado
    /\ ContratoDe(hojas[HojaActual][1]) = ContratoDe(hojas[HojaActual][2])
    /\ Menor(Cero, HistoriaAnterior(data_pro[ContratoDe(hojas[HojaActual][2])]))
    /\ Len(data_pro) >= 2

\* a row with its concept and installment number put back
SinColumnasEyG(nueva, vieja) ==
    [nueva EXCEPT !.concepto = vieja.concepto, !.cuota = vieja.cuota]

\* a step leaves the ledger, the clock, every other period, the number of
\* rows of every period and every field but E and G of the month's rows
MarcoDeCuotas ==
    /\ header_pro' = header_pro
    /\ data_pro' = data_pro
    /\ ahora' = ahora
    /\ \A h \in DOMAIN hojas :
          /\ h \in DOMAIN hojas'
          /\ Len(hojas'[h]) = Len(hojas[h])
          /\ h # HojaActual => hojas'[h] = hojas[h]
          /\ \A k \in 1..Len(hojas[h]) :
                SinColumnasEyG(hojas'[h][k], hojas[h][k]) = hojas[h][k]

\* the only step that changes a row is the one write at the end of a run,
\* after every row of the month has been classified, and it stores the
\* concept and installment number computed for each row
UnaEscrituraAlFinal ==
    (\E h \in DOMAIN hojas : hojas'[h] # hojas[h]) =>
        /\ cq_pc = "escribir"
        /\ cq_pc' = "reposo"
        /\ Len(conceptos) = Len(hojas[HojaActual])
        /\ Len(cuotas) = Len(hojas[HojaActual])
        /\ \A k \in 1..Len(hojas[HojaActual]) :
              /\ hojas'[HojaActual][k].concepto = conceptos[k]
              /\ hojas'[HojaActual][k].cuota = cuotas[k]

\* a run that returns from its first step: the ledger is empty, the month
\* has no installment-value column, or the month has no rows
RetornoTemprano == cq_pc = "reposo" /\ cq_pc' = "reposo" /\ cq_corridas' = cq_corridas + 1

\* C21 as stated: the frame above, and a run that returns early writes
\* nothing at all.
C21_NadaSinFilas ==
    [][/\ MarcoDeCuotas
       /\ UnaEscrituraAlFinal
       /\ RetornoTemprano => hojas' = hojas]_vars

\* C21: a run changes only the concept and installment-number fields of the
\* rows of the month, all of them, in the one write that follows the
\* classification of the last row; it changes no other field, no row count,
\* no other period and nothing in the ledger.  A run that returns early
\* changes no row; the one thing it can add is the month's own collection,
\* empty, when the ledger has rows, the month has its installment-value
\* column and the collection did not exist yet.
C21_Marco ==
    [][/\ MarcoDeCuotas
       /\ UnaEscrituraAlFinal
       /\ DOMAIN hojas' \subseteq DOMAIN hojas \cup {HojaActual}
       /\ DOMAIN hojas' # DOMAIN hojas =>
             /\ RetornoTemprano
             /\ hojas'[HojaActual] = << >>
             /\ data_pro # << >>
             /\ find_valor_cuota_col(header_pro, ahora.mesIdx, ahora.anio) # 0
       /\ (RetornoTemprano /\ HojaActual \in DOMAIN hojas) => hojas' = hojas
       /\ (RetornoTemprano /\ (data_pro = << >>
               \/ find_valor_cuota_col(header_pro, ahora.mesIdx, ahora.anio) = 0)) =>
             hojas' = hojas]_vars

\* a first run has written a month of three rows: one without contract, one
\* without installment value and one classified, over other values
C21_Testigo ==
    /\ cq_corridas = 1
    /\ cq_pc = "reposo"
    /\ HojaActual \in DOMAIN hojas
    /\ Len(hojas[HojaActual]) = 3
    /\ \E i, j, k \in 1..3 :
          /\ hojas[HojaActual][i].concepto = "No Match"
          /\ hojas[HojaActual][j].concepto = "Falta Valor"
          /\ hojas[HojaActual][j].cuota = << >>
          /\ hojas[HojaActual][k].concepto \in {"Total", "Parcial", "Cuota"}
    /\ \E h \in DOMAIN hojas : h # HojaActual /\ hojas[h] # << >>

(***************************************************************************)
(* Python floats (IEEE 754 binary64), for the amounts of the accumulator.  *)
(*                                                                         *)
(* A float that is zero or lies between 2^-11 and 2^53 is held exactly, as *)
(* the natural number of its units of 2^-64, written in binary with the    *)
(* lowest bit first and no leading zero (<< >> is 0.0).  Every result is   *)
(* rounded to 53 significant bits, ties to the even neighbour, as the      *)
(* processor rounds it.  The amounts of SpecCuotas and SpecClasificar are  *)
(* binary fractions whose sums and products need no rounding; the amounts  *)
(* of SpecDoble are not.                                                   *)
(***************************************************************************)
BitsFraccion == 64
BitsMantisa == 53
BitsCociente == 96
\* sums go by pieces of BitsTrozo bits, divisions by blocks of BitsBloque
BitsTrozo == 15
BitsBloque == 12
Pot2 == [t \in 0..BitsTrozo |-> 2 ^ t]

Bit(a, i) == IF i <= Len(a) THEN a[i] ELSE 0

\* a without its leading zeros
Recortar(a) ==
    LET k == CHOOSE k \in 0..Len(a) :
                 /\ k = Len(a) \/ a[Len(a) - k] = 1
                 /\ \A j \in (Len(a) - k + 1)..Len(a) : a[j] = 0
    IN  SubSeq(a, 1, Len(a) - k)

RECURSIVE BitsDe(_)
BitsDe(n) == IF n = 0 THEN << >> ELSE <<n % 2>> \o BitsDe(n \div 2)

\* the number written by bits d+1 .. d+BitsTrozo of a
Trozo(a, d) ==
    Bit(a, d + 1) + 2 * Bit(a, d + 2) + 4 * Bit(a, d + 3) + 8 * Bit(a, d + 4)
    + 16 * Bit(a, d + 5) + 32 * Bit(a, d + 6) + 64 * Bit(a, d + 7) + 128 * Bit(a, d + 8)
    + 256 * Bit(a, d + 9) + 512 * Bit(a, d + 10) + 1024 * Bit(a, d + 11)
    + 2048 * Bit(a, d + 12) + 4096 * Bit(a, d + 13) + 8192 * Bit(a, d + 14)
    + 16384 * Bit(a, d + 15)
\* the BitsTrozo low bits of n
BitsDeTrozo(n) == [t \in 1..BitsTrozo |-> (n \div Pot2[t - 1]) % 2]

RECURSIVE BSumaDesde(_, _, _, _)
BSumaDesde(a, b, d, c) ==
    IF d >= Len(a) /\ d >= Len(b) THEN BitsDe(c)
    ELSE BitsDeTrozo(Trozo(a, d) + Trozo(b, d) + c)
             \o BSumaDesde(a, b, d + BitsTrozo,
                           (Trozo(a, d) + Trozo(b, d) + c) \div Pot2[BitsTrozo])
BSuma(a, b) == Recortar(BSumaDesde(a, b, 0, 0))

\* a - b for a >= b
RECURSIVE BRestaDesde(_, _, _, _)
BRestaDesde(a, b, d, p) ==
    IF d >= Len(a) THEN << >>
    ELSE BitsDeTrozo(Pot2[BitsTrozo] + Trozo(a, d) - Trozo(b, d) - p)
             \o BRestaDesde(a, b, d + BitsTrozo,
                            IF Trozo(a, d) - Trozo(b, d) - p < 0 THEN 1 ELSE 0)
BResta(a, b) == Recortar(BRestaDesde(a, b, 0, 0))

BMenor(a, b) ==
    \/ Len(a) < Len(b)
    \/ /\ Len(a) = Len(b)
       /\ \E i \in 1..Len(a) : a[i] < b[i] /\ \A j \in (i + 1)..Len(a) : a[j] = b[j]

\* a * 2^k and the integer part of a / 2^k
Izq(a, k) ==
    IF a = << >> THEN << >>
    ELSE [i \in 1..(k + Len(a)) |-> IF i <= k THEN 0 ELSE a[i - k]]
Der(a, k) == IF k >= Len(a) THEN << >> ELSE SubSeq(a, k + 1, Len(a))

\* a * c for a natural number c
RECURSIVE BPor(_, _)
BPor(a, c) ==
    IF c = 0 THEN << >>
    ELSE BSuma(IF c % 2 = 1 THEN a ELSE << >>, Izq(BPor(a, c \div 2), 1))

\* long division of x by y > 0, the bits of x taken from the top: bits
\* i, i-1, .. i-k+1 with r the remainder so far
RECURSIVE BDivBloque(_, _, _, _, _)
BDivBloque(x, y, i, k, r) ==
    IF k = 0 THEN [coc |-> << >>, resto |-> r]
    ELSE LET r1 == IF r = << >> /\ x[i] = 0 THEN << >> ELSE <<x[i]>> \o r
             con(d, b) == [coc |-> Append(d.coc, b), resto |-> d.resto]
         IN  IF BMenor(r1, y)
             THEN con(BDivBloque(x, y, i - 1, k - 1, r1), 0)
             ELSE con(BDivBloque(x, y, i - 1, k - 1, BResta(r1, y)), 1)
RECURSIVE BDivDesde(_, _, _, _)
BDivDesde(x, y, i, r) ==
    IF i = 0 THEN [coc |-> << >>, resto |-> r]
    ELSE LET k == IF i < BitsBloque THEN i ELSE BitsBloque
             b == BDivBloque(x, y, i, k, r)
             con(d) == [coc |-> d.coc \o b.coc, resto |-> d.resto]
         IN  IF Len(b.coc) = k THEN con(BDivDesde(x, y, i - k, b.resto))
             ELSE b
BDiv(x, y) ==
    LET d == BDivDesde(x, y, Len(x), << >>)
    IN  [coc |-> Recortar(d.coc), resto |-> d.resto]

\* the nearest number of 53 significant bits, ties to even; pegajoso tells
\* that the exact value lies above a by less than one unit
Redondear(a, pegajoso) ==
    IF Len(a) <= BitsMantisa THEN a
    ELSE LET d == Len(a) - BitsMantisa
             q == Der(a, d)
             arriba == /\ a[d] = 1
                       /\ \/ pegajoso
                          \/ \E i \in 1..(d - 1) : a[i] = 1
                          \/ q[1] = 1
         IN  Izq(IF arriba THEN BSuma(q, <<1>>) ELSE q, d)

\* float(s) of Python for the text whose exact decimal value is m: the float
\* nearest to m.num / 10^m.dec
Doble(m) ==
    LET d == BDiv(Izq(BitsDe(m.num), BitsFraccion), BitsDe(Pot10(m.dec)))
    IN  Redondear(d.coc, d.resto # << >>)

DobleEntero(n) == Izq(BitsDe(n), BitsFraccion)

\* a + b, a * c for an int c, a - b for a >= b
DSuma(a, b) == Redondear(BSuma(a, b), FALSE)
DPor(a, c) == Redondear(BPor(a, c), FALSE)
DResta(a, b) == Redondear(BResta(a, b), FALSE)

\* a - n for an int n: a sign and a magnitude
DMenosEntero(a, n) ==
    IF BMenor(a, DobleEntero(n))
    THEN [negativo |-> TRUE, valor |-> DResta(DobleEntero(n), a)]
    ELSE [negativo |-> FALSE, valor |-> DResta(a, DobleEntero(n))]
\* a < t for a >= 0 and a signed t
DMenorQue(a, t) == ~t.negativo /\ BMenor(a, t.valor)

\* a / b in units of 2^-BitsCociente, and int() and round() of it
DCociente(a, b) ==
    LET d == BDiv(Izq(a, BitsCociente), b)
    IN  Redondear(d.coc, d.resto # << >>)
RECURSIVE ValorBits(_)
ValorBits(a) == IF a = << >> THEN 0 ELSE a[1] + 2 * ValorBits(SubSeq(a, 2, Len(a)))
IntDeCociente(q) == ValorBits(Der(q, BitsCociente))
RoundDeCociente(q) ==
    LET n == IntDeCociente(q)
        medio == Bit(q, BitsCociente) = 1
        mas == \E i \in 1..(BitsCociente - 1) : Bit(q, i) = 1
    IN  IF medio /\ (mas \/ n % 2 = 1) THEN n + 1 ELSE n
\* a % b
DResto(a, b) == BDiv(a, b).resto

(***************************************************************************)
(* SpecDoble: ejecutar_cuotas_concepto with the amounts as the floats that *)
(* Python computes                                                         *)
(***************************************************************************)
\* parsear_monto_float: the text handed to float(), then the float of it
parsear_monto_doble(texto) == Doble(parsear_monto_float(texto))

\* _sumar_historia: total += val over the pago columns before
\* key_mes_actual, in sorted order
RECURSIVE sumar_historia_doble(_, _, _, _, _)
sumar_historia_doble(row_pro, header, pago_cols, key_mes_actual, total) ==
    IF pago_cols = << >> THEN total
    ELSE IF ClaveMes(parse_mes_anio_header(header[Head(pago_cols)])) >= key_mes_actual THEN total
    ELSE sumar_historia_doble(row_pro, header, Tail(pago_cols), key_mes_actual,
             DSuma(total, parsear_monto_doble(row_pro.meses[Head(pago_cols)])))

\* the decision of lines 151-173 on floats
ClasificarDoble(est, val, cant) ==
    IF ~DMenorQue(est, DMenosEntero(DPor(val, cant), Tolerancia))
    THEN [concepto |-> "Total", cuota |-> cant]
    ELSE IF DMenorQue(est, DMenosEntero(val, Tolerancia))
    THEN [concepto |-> "Parcial", cuota |-> 1]
    ELSE LET resto == DResto(est, val)
             es_exacto == \/ BMenor(resto, DobleEntero(MargenExacto))
                          \/ BMenor(DResta(val, resto), DobleEntero(MargenExacto))
             n == IF es_exacto THEN RoundDeCociente(DCociente(est, val))
                  ELSE IntDeCociente(DCociente(est, val)) + 1
         IN  [concepto |-> IF es_exacto THEN "Cuota" ELSE "Parcial",
              cuota |-> IF n > cant THEN cant ELSE n]

\* lines 119-182: one row of data_mes
CuotasFilaDoble ==
    /\ cq_pc = "filas"
    /\ LET row == hojas[HojaActual][cq_i]
           dni == strip(row.dni)
           key == unique_key(dni, strip(row.cartera))
           idx_pro == MapaCuotas(data_pro, key)
           col_valor == find_valor_cuota_col(header_pro, ahora.mesIdx, ahora.anio)
       IN  /\ IF dni # << >> /\ idx_pro # 0
              THEN LET row_pro == data_pro[idx_pro]
                       cant == CantCuotas(row_pro.total)
                       val == parsear_monto_doble(row_pro.meses[col_valor])
                   IN  /\ cant_cuotas' = cant
                       /\ val_cuota' = val
                       /\ IF val # << >>
                          THEN LET historia == sumar_historia_doble(row_pro, header_pro,
                                                   get_pago_columns(header_pro), KeyMesActual, << >>)
                                   acum_previo == IF key \in DOMAIN acumulador
                                                  THEN acumulador[key] ELSE << >>
                                   est == DSuma(DSuma(historia, acum_previo),
                                                parsear_monto_doble(row.importe))
                                   dec == ClasificarDoble(est, val, cant)
                               IN  /\ estado' = est
                                   /\ acumulador' =
                                          (key :> DSuma(acum_previo, parsear_monto_doble(row.importe)))
                                              @@ acumulador
                                   /\ concepto' = dec.concepto
                                   /\ cuota' = TextoDeEntero(dec.cuota)
                                   /\ actualizadas' = actualizadas + 1
                          ELSE /\ estado' = SinEstado
                               /\ concepto' = "Falta Valor"
                               /\ cuota' = << >>
                               /\ UNCHANGED <<acumulador, actualizadas>>
              ELSE /\ concepto' = IF dni # << >> THEN "No Match" ELSE ""
                   /\ cuota' = << >>
                   /\ estado' = SinEstado
                   /\ val_cuota' = SinValor
                   /\ cant_cuotas' = 0
                   /\ UNCHANGED <<acumulador, actualizadas>>
           /\ conceptos' = Append(conceptos, concepto')
           /\ cuotas' = Append(cuotas, cuota')
           /\ cq_i' = cq_i + 1
           /\ cq_pc' = IF cq_i = Len(hojas[HojaActual]) THEN "escribir" ELSE "filas"
    /\ UNCHANGED <<cq_corridas, varsParsers, varsStore>>
    /\ UNCHANGED <<varsPipelines, varsPuros>>

Txt3212con42 == <<"3", ".", "2", "1", "2", ",", "4", "2">>
Txt974con68 == <<"9", "7", "4", ",", "6", "8">>
Txt1553con93 == <<"1", ".", "5", "5", "3", ",", "9", "3">>
Txt633con81 == <<"6", "3", "3", ",", "8", "1">>
Txt2323con76 == <<"2", ".", "3", "2", "3", ",", "7", "6">>
Txt2829con14 == <<"2", ".", "8", "2", "9", ",", "1", "4">>
Txt2874con87 == <<"2", ".", "8", "7", "4", ",", "8", "7">>
Txt1217con27 == <<"1", ".", "2", "1", "7", ",", "2", "7">>
Txt1 == <<"1">>

\* the value of March 25, the payments of February 25 and of March 25
HeaderDoble ==
    <<Encabezado("valor", 2, 25), Encabezado("pago", 1, 25), Encabezado("pago", 2, 25)>>
\* a contract with the amounts of its rows of March
FilasDoble(importes) == {FilaMes(DniA, CarteraComafi, m, "", << >>) : m \in importes}
CasosDoble ==
    {[pro |-> <<FilaPro(DniA, CarteraComafi, Txt1, <<Txt3212con42, Txt974con68, << >>>>)>>,
      filas |-> FilasDoble({Txt1553con93, Txt633con81, << >>})],
     [pro |-> <<FilaPro(DniA, CarteraComafi, Txt3, <<Txt2323con76, Txt2829con14, << >>>>)>>,
      filas |-> FilasDoble({Txt2874con87, Txt1217con27, << >>})],
     [pro |-> <<FilaPro(DniA, CarteraComafi, Txt3, <<Txt1000, Txt100, << >>>>),
                FilaPro(DniB, CarteraComafi, Txt3, <<<< >>, Txt100, << >>>>)>>,
      filas |-> FilasDoble({Txt500, Txt1000con50})
                    \cup {FilaMes(DniB, CarteraComafi, Txt500, "", << >>),
                          FilaMes(DniA, CarteraExi, Txt500, "", << >>)}]}

InitDoble ==
    /\ archivo = << >>
    /\ dni_normal = Pendiente
    /\ dni_honorario = Pendiente
    /\ PurosSinUso
    /\ header_pro = HeaderDoble
    /\ ahora = [mesIdx |-> 2, anio |-> 2025]
    /\ \E caso \in CasosDoble :
          /\ data_pro = caso.pro
          /\ \E filas \in UNION {[1..n -> caso.filas] : n \in 0..MaxFilas} :
                hojas = [h \in NombresHoja |-> IF h = HojaActual THEN filas ELSE OtraHoja]
    /\ CuotasEnReposo
    /\ PipelinesSinUso

NextDoble == CuotasInicio \/ CuotasFilaDoble \/ CuotasEscribir

SpecDoble == InitDoble /\ [][NextDoble]_vars

\* C26: once a row of a contract is classified Total, every later row of the
\* same contract in the same run over the period is classified Total with
\* the contract's number of installments.
C26_TotalAbsorbente ==
    \A i, j \in 1..Len(conceptos) :
        (/\ i < j
         /\ conceptos[i] = "Total"
         /\ ContratoDe(hojas[HojaActual][i]) # 0
         /\ ContratoDe(hojas[HojaActual][j]) = ContratoDe(hojas[HojaActual][i])) =>
            /\ conceptos[j] = "Total"
            /\ cuotas[j] = cuotas[i]

(***************************************************************************)
(* SpecClasificar: the decision of lines 151-173 on bounded numbers        *)
(***************************************************************************)
MaxEstado == 12100
ValoresPrueba == {Entero(80), Entero(100), Entero(150), Entero(1000), [num |-> 10005, dec |-> 1]}
CantidadesPrueba == {1, 3, 12, SinCantidad}

InitClasificar ==
    /\ archivo = << >>
    /\ dni_normal = Pendiente
    /\ dni_honorario = Pendiente
    /\ PurosSinUso
    /\ header_pro = << >>
    /\ data_pro = << >>
    /\ hojas = [h \in NombresHoja |-> << >>]
    /\ ahora = [mesIdx |-> 2, anio |-> 2025]
    /\ cq_pc = "decidir"
    /\ cq_i = 0
    /\ cq_corridas = 0
    /\ acumulador = << >>
    /\ conceptos = << >>
    /\ cuotas = << >>
    /\ actualizadas = 0
    /\ estado \in {Entero(n) : n \in 0..MaxEstado}
    /\ val_cuota \in ValoresPrueba
    /\ cant_cuotas \in CantidadesPrueba
    /\ concepto = ""
    /\ cuota = << >>
    /\ PipelinesSinUso

Decidir ==
    /\ cq_pc = "decidir"
    /\ concepto = ""
    /\ concepto' = Clasificar(estado, val_cuota, cant_cuotas).concepto
    /\ cuota' = TextoDeEntero(Clasificar(estado, val_cuota, cant_cuotas).cuota)
    /\ UNCHANGED <<estado, val_cuota, cant_cuotas, varsParsers, varsStore, varsCuotas>>
    /\ UNCHANGED <<varsPipelines, varsPuros>>

NextClasificar == Decidir

SpecClasificar == InitClasificar /\ [][NextClasificar]_vars

\* C4: with V > 0, T = V*C and running total R, in this order: R >= T-50
\* gives Total/C; else R < V-50 gives Parcial/1; else, R being within 100 of
\* a multiple of V, Cuota with the integer nearest to R/V, otherwise Parcial
\* with floor(R/V)+1, neither above C.
C4_Umbrales ==
    concepto \in {"Total", "Parcial", "Cuota"} =>
        LET k == IF estado.dec >= val_cuota.dec THEN estado.dec ELSE val_cuota.dec
            r == estado.num * Pot10(k - estado.dec)
            v == val_cuota.num * Pot10(k - val_cuota.dec)
            c == cant_cuotas
            n == ValorDigitos(cuota)
            piso == r \div v
            resto == r - piso * v
            tope(m) == IF m > c THEN c ELSE m
            dist(m) == IF r >= m * v THEN r - m * v ELSE m * v - r
        IN  /\ IF r >= v * c - 50 * Pot10(k) THEN concepto = "Total" /\ n = c
               ELSE IF r < v - 50 * Pot10(k) THEN concepto = "Parcial" /\ n = 1
               ELSE IF resto < 100 * Pot10(k) \/ v - resto < 100 * Pot10(k)
               THEN /\ concepto = "Cuota"
                    /\ \E m \in {piso, piso + 1} : 2 * dist(m) <= v /\ n = tope(m)
               ELSE concepto = "Parcial" /\ n = tope(piso + 1)
            /\ (v = 1000 /\ k = 0 /\ c = 12 /\ r = 11960) => (concepto = "Total" /\ n = 12)
            /\ (v = 1000 /\ k = 0 /\ c = 12 /\ r = 900) => (concepto = "Parcial" /\ n = 1)
            /\ (v = 1000 /\ k = 0 /\ c = 12 /\ r = 2950) => (concepto = "Cuota" /\ n = 3)

\* V = 1000, C = 12, R = 2950 has been decided
C4_Testigo ==
    /\ cq_pc = "decidir"
    /\ val_cuota = Entero(1000) /\ cant_cuotas = 12 /\ estado = Entero(2950)
    /\ concepto = "Cuota" /\ cuota = <<"3">>

\* C25: a row classified Total, Parcial or Cuota (V > 0, C >= 1, R >= 0)
\* gets an installment number n with 1 <= n <= C.
C25_RangoDeCuota ==
    (concepto \in {"Total", "Parcial", "Cuota"} /\ Menor(Cero, val_cuota) /\ cant_cuotas >= 1) =>
        /\ 1 <= ValorDigitos(cuota)
        /\ ValorDigitos(cuota) <= cant_cuotas

(***************************************************************************)
(* SpecParsers: the two extractors applied to every bounded file name      *)
(***************************************************************************)
\* file names: a run of digits followed by a tail over AlfabetoArchivo
MaxCola == 4
AlfabetoArchivo == {"1", "h", "H", "a", " ", ".", "_"}
LargosPrefijo == {0, MinDni - 1, MinDni, MaxDni, MaxDni + 1}
Colas == UNION {[1..k -> AlfabetoArchivo] : k \in 0..MaxCola}
Archivos == {[k \in 1..n |-> "1"] \o c : n \in LargosPrefijo, c \in Colas}

InitParsers ==
    /\ archivo \in Archivos
    /\ dni_normal = Pendiente
    /\ dni_honorario = Pendiente
    /\ PurosSinUso
    /\ header_pro = << >>
    /\ data_pro = << >>
    /\ hojas = [h \in NombresHoja |-> << >>]
    /\ ahora = [mesIdx |-> 2, anio |-> 2025]
    /\ CuotasEnReposo
    /\ PipelinesSinUso

LlamarExtraerDni ==
    /\ dni_normal = Pendiente
    /\ dni_normal' = extraer_dni_desde_archivo(archivo)
    /\ UNCHANGED <<archivo, dni_honorario, varsStore, varsCuotas, varsFila>>
    /\ UNCHANGED <<varsPipelines, varsPuros>>

LlamarExtraerHonorario ==
    /\ dni_honorario = Pendiente
    /\ dni_honorario' = extraer_dni_honorario(archivo)
    /\ UNCHANGED <<archivo, dni_normal, varsStore, varsCuotas, varsFila>>
    /\ UNCHANGED <<varsPipelines, varsPuros>>

NextParsers == LlamarExtraerDni \/ LlamarExtraerHonorario

SpecParsers == InitParsers /\ [][NextParsers]_vars

\* C9: whenever extraer_dni_honorario finds an identifier in a file name,
\* extraer_dni_desde_archivo returns the empty text for that file name.
C9_MarcaSuprimeExtraccion ==
    (dni_honorario \notin {Pendiente, << >>} /\ dni_normal # Pendiente)
        => dni_normal = << >>

(***************************************************************************)
(* Spec: runs of ejecutar_carga_pagos and ejecutar_honorarios, one after   *)
(* another, over a store whose calls may fail                              *)
(***************************************************************************)
MaxInfo == 2

Txt05del03 == <<"0", "5", "/", "0", "3", "/", "2", "0", "2", "5">>
Txt5del3corto == <<"5", "-", "3", "-", "2", "5">>
Txt10del03 == <<"1", "0", "/", "0", "3", "/", "2", "0", "2", "5">>
Txt05del01 == <<"0", "5", "/", "0", "1", "/", "2", "0", "2", "6">>
TxtFechaMala == <<"3", "1", "/", "1", "3", "/", "2", "0", "2", "5">>
ArchivoA == DniA \o <<".", "p", "d", "f">>
ArchivoB == DniB
ArchivoAHon == DniA \o <<" ", "h">>
ArchivoAPegado == DniA \o <<"h">>

FilaInfo(arch, fecha, monto) ==
    [archivo |-> arch, fecha |-> fecha, monto |-> monto, p |-> << >>, q |-> << >>]

FilasInfoPrueba ==
    {FilaInfo(ArchivoA, Txt05del03, Txt500),
     FilaInfo(ArchivoA, TxtFechaMala, Txt500),
     FilaInfo(ArchivoB, Txt05del03, Txt500),
     FilaInfo(ArchivoAHon, Txt10del03, Txt500),
     FilaInfo(ArchivoAHon, Txt05del01, Txt1000con50),
     FilaInfo(ArchivoAPegado, Txt5del3corto, Txt500)}

\* three contracts of the same identifier, told apart by name, operator,
\* type and installment data
ProPrimero ==
    [ProComafiViejo EXCEPT !.nombre = <<"v">>, !.operador = <<"p">>,
                           !.tipo = <<"C", "u", "o", "t", "a">>, !.valor = Txt1000]
LedgersCarga == {<< >>, <<ProPrimero, ProExi, ProComafi>>}

\* period collections as earlier runs leave them
FilaCargada(fecha, monto) ==
    nueva_fila(DniA, ProComafi, HeaderCompleto,
               parsear_fecha_flexible(fecha, 2025), monto)
HojasPrueba2Mar ==
    <<FilaCargada(<<"0", "7", "/", "0", "3", "/", "2", "0", "2", "5">>, Txt200),
      FilaCargada(Txt05del03, Txt500)>>
HojasPrueba ==
    {[h \in NombresHoja |-> << >>],
     [h \in NombresHoja |->
         IF h = <<2, 25>>
         THEN HojasPrueba2Mar
         ELSE IF h = <<11, 25>>
         THEN <<FilaCargada(<<"2", "0", "2", "5", "-", "1", "2", "-", "1", "0">>, Txt200),
                FilaCargada(<<"2", "0", "2", "5", "-", "1", "2", "-", "0", "9">>, Txt800)>>
         ELSE << >>]}

Init ==
    /\ archivo = << >>
    /\ dni_normal = Pendiente
    /\ dni_honorario = Pendiente
    /\ PurosSinUso
    /\ header_pro = HeaderCompleto
    /\ data_pro \in LedgersCarga
    /\ hojas \in HojasPrueba
    /\ ahora = [mesIdx |-> 2, anio |-> 2025]
    /\ CuotasEnReposo
    /\ info \in UNION {[1..n -> FilasInfoPrueba] : n \in 0..MaxInfo}
    /\ ejecuciones = 0
    /\ fallas = 0
    /\ CargaEnReposo
    /\ cp_resultado = [tipo |-> "ninguno"]
    /\ HonEnReposo
    /\ hn_resultado = [tipo |-> "ninguno"]

Next ==
    \/ CargaInicio
    \/ CargaFila
    \/ CargaEscribir
    \/ HonInicio
    \/ HonGrupo
    \/ HonEstado

Spec == Init /\ [][Next]_vars

(***************************************************************************)
(* Properties of the two loaders                                           *)
(***************************************************************************)
\* the identifier, day and month of a row of a period sheet, as read from
\* its identifier and short-date fields
FechaDeFila(r) == parsear_dia_mes_texto(r.fecha)
MismaTupla(r, s) ==
    /\ strip(r.dni) = strip(s.dni)
    /\ FechaDeFila(r) # SinFecha
    /\ FechaDeFila(r).dia = FechaDeFila(s).dia
    /\ FechaDeFila(r).mesIdx = FechaDeFila(s).mesIdx

\* the rows queued by the run of the loader, over all sheets
RECURSIVE EnCola(_, _)
EnCola(fph, n) ==
    IF n = 0 THEN << >> ELSE EnCola(fph, n - 1) \o fph[n].filas

\* the rows of the contract ledger with an identifier
FilasDeContrato(dni) ==
    {i \in 1..Len(pro_leido) : strip(pro_leido[i].dni) = dni}

\* C1: a receipt (identifier, day, month) ingested twice, in one run or in
\* two successive runs over the same raw input, has exactly one entry in its
\* period sheet: no sheet holds two rows of the loader with the same
\* identifier, day and month.
C1_UnaEntradaPorRecibo ==
    \A h \in DOMAIN hojas : \A j, k \in 1..Len(hojas[h]) :
        (/\ j < k
         /\ ~es_honorario_existente(hojas[h][j])
         /\ ~es_honorario_existente(hojas[h][k]))
        => ~MismaTupla(hojas[h][j], hojas[h][k])

\* C2: no period sheet holds two rows with the same identifier, day and
\* month, except that an honorarium row may share them with another row
\* when their flat integer amounts differ.
C2_TuplaUnica ==
    \A h \in DOMAIN hojas : \A j, k \in 1..Len(hojas[h]) :
        (j < k /\ MismaTupla(hojas[h][j], hojas[h][k]))
        => /\ es_honorario_existente(hojas[h][j]) \/ es_honorario_existente(hojas[h][k])
           /\ hojas[h][j].montpago # hojas[h][k].montpago

\* C6: a failure while a raw row is processed (the read of its period sheet
\* raising) is caught at the row, counted as one error and recorded as the
\* status of that row; the loop goes on to the next row, the trail holds one
\* status per raw row in the order of the rows, and the run returns its
\* counts unless the append of the queued rows itself raises.
C6_AislamientoDeFila ==
    [][/\ cp_pc = "filas" =>
            /\ Len(estados) = cp_i - 1
            /\ Len(estados') = cp_i
            /\ \A k \in 1..Len(estados) : estados'[k] = estados[k]
            /\ cp_pc' = IF cp_i < Len(info_data) THEN "filas" ELSE "escribir"
            /\ cp_resultado' = cp_resultado
            /\ fallas' # fallas =>
                  /\ estados'[cp_i] = <<"Error">>
                  /\ errores' = errores + 1
                  /\ cargados' = cargados
                  /\ duplicados' = duplicados
                  /\ filas_por_hoja' = filas_por_hoja
       /\ cp_pc = "escribir" =>
            /\ Len(estados) = Len(info_data)
            /\ cargados + duplicados + errores <= Len(info_data)
            /\ \/ /\ cp_resultado'.tipo = "retorno"
                  /\ cp_resultado'.cargados = cargados
                  /\ cp_resultado'.duplicados = duplicados
                  /\ cp_resultado'.errores = errores
                  /\ fallas' = fallas => \A i \in 1..Len(info') : info'[i].p = estados[i]
               \/ /\ cp_resultado'.tipo = "excepcion"
                  /\ fallas' # fallas
                  /\ EnCola(filas_por_hoja, Len(filas_por_hoja)) # << >>
      ]_vars

\* a run that returned its counts after the read for its first row raised
\* and its second row was loaded
C6_Testigo ==
    /\ cp_pc = "reposo"
    /\ cp_resultado.tipo = "retorno"
    /\ Len(estados) = 2
    /\ estados[1] = <<"Error">>
    /\ estados[2][1] = "OK"
    /\ cp_resultado.errores = 1
    /\ cp_resultado.cargados = 1

\* C7 (amended): in a run that reaches the loop over the raw rows (raw input
\* and contract ledger both with rows), a row whose identifier has no
\* contract, or whose date does not parse, adds one to the errors, queues
\* nothing and adds no key; a row without identifier changes no count and
\* queues nothing; a row with identifier that is neither an error nor a
\* duplicate queues exactly one entry and adds one to the loaded.
C7_ResultadoDeFila ==
    [][cp_pc = "filas" =>
          LET row == info_data[cp_i]
              dni == extraer_dni_desde_archivo(strip(row.archivo))
              sin_contrato == FilasDeContrato(dni) = {}
              sin_fecha == parsear_fecha_flexible(row.fecha, ahora.anio) = SinFecha
              antes == Len(EnCola(filas_por_hoja, Len(filas_por_hoja)))
              despues == Len(EnCola(filas_por_hoja', Len(filas_por_hoja')))
          IN  /\ dni = << >> =>
                    /\ <<cargados', duplicados', errores'>> = <<cargados, duplicados, errores>>
                    /\ despues = antes
                    /\ existing_entries' = existing_entries
              /\ (dni # << >> /\ (sin_contrato \/ sin_fecha)) =>
                    /\ errores' = errores + 1
                    /\ <<cargados', duplicados'>> = <<cargados, duplicados>>
                    /\ despues = antes
                    /\ existing_entries' = existing_entries
              /\ (dni # << >> /\ errores' = errores /\ duplicados' = duplicados) =>
                    /\ cargados' = cargados + 1
                    /\ despues = antes + 1
      ]_vars

\* a run in which a row without contract was refused and the next loaded
C7_Testigo ==
    /\ cp_pc = "escribir"
    /\ Len(estados) = 2
    /\ estados[1] = <<"No existe en PRO">>
    /\ estados[2][1] = "OK"
    /\ errores = 1
    /\ cargados = 1
    /\ Len(EnCola(filas_por_hoja, Len(filas_por_hoja))) = 1

\* C7 as stated, for every run: when the run returns, each raw row whose
\* identifier has no contract has been counted as an error.
C7_TodaCorrida ==
    cp_resultado.tipo = "retorno" =>
        cp_resultado.errores >=
            Cardinality({i \in 1..Len(info_data) :
                            LET dni == extraer_dni_desde_archivo(strip(info_data[i].archivo))
                            IN  dni # << >> /\ FilasDeContrato(dni) = {}})

\* C8 (amended): with several rows of one identifier in the contract ledger
\* the identifier maps to the last of them (highest row index); a queued
\* entry takes name, operator and total of installments from that row.
C8_UltimaFila ==
    \A k \in 1..Len(filas_por_hoja) : \A j \in 1..Len(filas_por_hoja[k].filas) :
        LET f == filas_por_hoja[k].filas[j]
            idx == FilasDeContrato(f.dni)
        IN  /\ idx # {}
            /\ f.nombre = pro_leido[Max(idx)].nombre
            /\ f.operador = pro_leido[Max(idx)].operador
            /\ f.total = pro_leido[Max(idx)].total

\* an entry queued for an identifier with two contracts of different name
C8_Testigo ==
    \E k \in 1..Len(filas_por_hoja) : \E j \in 1..Len(filas_por_hoja[k].filas) :
        LET idx == FilasDeContrato(filas_por_hoja[k].filas[j].dni)
        IN  /\ Cardinality(idx) >= 2
            /\ pro_leido[Min(idx)].nombre # pro_leido[Max(idx)].nombre
            /\ pro_leido[Min(idx)].operador # pro_leido[Max(idx)].operador
            /\ pro_leido[Min(idx)].total # pro_leido[Max(idx)].total

\* C8 as stated: the identifier maps to the first of its rows (lowest row
\* index); a queued entry takes name, operator and total of installments
\* from that row.
C8_PrimeraFila ==
    \A k \in 1..Len(filas_por_hoja) : \A j \in 1..Len(filas_por_hoja[k].filas) :
        LET f == filas_por_hoja[k].filas[j]
            idx == FilasDeContrato(f.dni)
        IN  /\ idx # {}
            /\ f.nombre = pro_leido[Min(idx)].nombre
            /\ f.operador = pro_leido[Min(idx)].operador
            /\ f.total = pro_leido[Min(idx)].total

\* the honorarium receipts of the raw input for a sheet, an identifier and a
\* flat amount, told apart by their day and month
RecibosHonorario(h, dni, monto) ==
    {<<parsear_fecha_flexible(info[i].fecha, ahora.anio).dia,
       parsear_fecha_flexible(info[i].fecha, ahora.anio).mesIdx>> :
        i \in {n \in 1..Len(info) :
                  LET fecha == parsear_fecha_flexible(info[n].fecha, ahora.anio)
                  IN  /\ extraer_dni_honorario(strip(info[n].archivo)) = dni
                      /\ fecha # SinFecha
                      /\ nombre_hoja_mes(fecha.mesIdx, fecha.anio) = h
                      /\ limpiar_monto_sin_decimales(info[n].monto) = monto}}

\* C10: an honorarium receipt whose row was written is a duplicate from then
\* on, whether or not its status was recorded: a sheet holds no more
\* honorarium rows of an identifier and a flat amount than the raw input
\* holds distinct receipts of that identifier and amount for the sheet.
C10_SinSegundaFila ==
    \A h \in DOMAIN hojas : \A k \in 1..Len(hojas[h]) :
        es_honorario_existente(hojas[h][k]) =>
            Cardinality({j \in 1..Len(hojas[h]) :
                            /\ es_honorario_existente(hojas[h][j])
                            /\ strip(hojas[h][j].dni) = strip(hojas[h][k].dni)
                            /\ hojas[h][j].montpago = hojas[h][k].montpago})
            <= Cardinality(RecibosHonorario(h, strip(hojas[h][k].dni), hojas[h][k].montpago))

\* the bottom-most row of a sheet with the identifier, 0 when there is none
UltimaConDni(data, dni) ==
    IF \E r \in 1..Len(data) : strip(data[r].dni) = dni
    THEN CHOOSE r \in 1..Len(data) :
             /\ strip(data[r].dni) = dni
             /\ \A q \in (r + 1)..Len(data) : strip(data[q].dni) # dni
    ELSE 0

\* the rows of a sheet as a read finds them
LeidaDe(h) == IF h \in DOMAIN hojas THEN hojas[h] ELSE << >>

\* the period before a period, as a sheet name
HojaAnterior(g) ==
    IF g.mesIdx = 0 THEN nombre_hoja_mes(11, g.anio - 1)
    ELSE nombre_hoja_mes(g.mesIdx - 1, g.anio)

\* the receipts of items 1..n of a group that were not duplicates
RECURSIVE NoDuplicados(_, _, _)
NoDuplicados(items, n, marcas) ==
    IF n = 0 THEN << >>
    ELSE IF marcas[items[n].idx][1] = "HON DUP" THEN NoDuplicados(items, n - 1, marcas)
    ELSE Append(NoDuplicados(items, n - 1, marcas), items[n])

\* the receipts of a sequence that have a base row in one of two sheets
RECURSIVE ConBase(_, _, _, _)
ConBase(its, n, mes, prev) ==
    IF n = 0 THEN << >>
    ELSE IF UltimaConDni(mes, its[n].dni) # 0 \/ UltimaConDni(prev, its[n].dni) # 0
    THEN Append(ConBase(its, n - 1, mes, prev), its[n])
    ELSE ConBase(its, n - 1, mes, prev)

\* a row is the clone of a base row for a receipt: every field of the base
\* row but amount, flat amount and honorarium flag
ClonDe(fila, base) ==
    /\ fila.dni = base.dni
    /\ fila.nombre = base.nombre
    /\ fila.fecha = base.fecha
    /\ fila.concepto = base.concepto
    /\ fila.cuota = base.cuota
    /\ fila.total = base.total
    /\ fila.cartera = base.cartera
    /\ fila.operador = base.operador

\* C11: in a month of the honorarium run that ends without a failure of
\* the store, every receipt that is not a duplicate takes as base the
\* bottom-most row of its identifier in the sheet of the month as read at
\* the start of the month; without one, the bottom-most row of its
\* identifier in the sheet of the month before (December of the year before
\* for January); without either it is counted as without base and nothing is
\* appended for it. The rows appended are the clones of those bases, in the
\* order of the receipts.
C11_FilaBase ==
    [][(hn_pc = "grupos" /\ hn_g' = hn_g + 1) =>
          LET g == grupos[hn_g]
              h == nombre_hoja_mes(g.mesIdx, g.anio)
              mes == LeidaDe(h)
              prev == LeidaDe(HojaAnterior(g))
              nuevos == NoDuplicados(g.items, Len(g.items), marcas_q')
              con == ConBase(nuevos, Len(nuevos), mes, prev)
              agregadas == SubSeq(hojas'[h], Len(mes) + 1, Len(hojas'[h]))
          IN  /\ SubSeq(hojas'[h], 1, Len(mes)) = mes
              /\ Len(agregadas) = Len(con)
              /\ procesados' = procesados + Len(con)
              /\ sin_base' = sin_base + Len(nuevos) - Len(con)
              /\ \A k \in 1..Len(con) :
                    LET aqui == UltimaConDni(mes, con[k].dni)
                        antes == UltimaConDni(prev, con[k].dni)
                    IN  /\ ClonDe(agregadas[k], IF aqui # 0 THEN mes[aqui] ELSE prev[antes])
                        /\ marcas_q'[con[k].idx][1] = "HON OK"
                        /\ Len(marcas_q'[con[k].idx]) = IF aqui # 0 THEN 2 ELSE 3
              /\ \A k \in 1..Len(nuevos) :
                    (UltimaConDni(mes, nuevos[k].dni) = 0 /\ UltimaConDni(prev, nuevos[k].dni) = 0)
                    => marcas_q'[nuevos[k].idx] = <<"HON ERROR", "Sin registro base">>
      ]_vars

\* a month ended in which a receipt took its base from a sheet that holds
\* two different rows of its identifier
C11_Testigo ==
    /\ hn_pc = "estado"
    /\ procesados >= 1
    /\ \E h \in DOMAIN hojas : \E j, k, n \in 1..Len(hojas[h]) :
          /\ j < k /\ k < n
          /\ strip(hojas[h][j].dni) = strip(hojas[h][k].dni)
          /\ hojas[h][j].fecha # hojas[h][k].fecha
          /\ ~es_honorario_existente(hojas[h][k])
          /\ es_honorario_existente(hojas[h][n])
          /\ ClonDe(hojas[h][n], hojas[h][k])

\* every queued list of rows is at the end of its sheet after the step
ColaEnHojas ==
    \A k \in 1..Len(filas_por_hoja) :
        hojas'[filas_por_hoja[k].hoja] =
            LeidaDe(filas_por_hoja[k].hoja) \o filas_por_hoja[k].filas

\* C12: a failure of the store while the status texts are written (column
\* P of the loader, column Q of the honorarium run) is swallowed: the phase
\* returns the counts it had reached, the rows it appended stay in their
\* sheets, the raw input keeps its earlier texts, and the caller sees a
\* return, not an exception.
C12_EstadoTragado ==
    [][/\ (cp_pc = "escribir" /\ fallas' # fallas /\ ColaEnHojas) =>
            /\ cp_resultado'.tipo = "retorno"
            /\ cp_resultado'.cargados = cargados
            /\ cp_resultado'.duplicados = duplicados
            /\ cp_resultado'.errores = errores
            /\ info' = info
       /\ (hn_pc = "estado" /\ fallas' # fallas) =>
            /\ hn_resultado' = [tipo |-> "retorno", procesados |-> procesados,
                                duplicados |-> hn_duplicados, sin_base |-> sin_base]
            /\ hojas' = hojas
            /\ info' = info
       /\ (HonInicio /\ hn_pc' = "reposo" /\ marcas_q' # << >> /\ fallas' # fallas) =>
            /\ hn_resultado' = [tipo |-> "retorno", procesados |-> 0,
                                duplicados |-> 0, sin_base |-> 0]
            /\ hojas' = hojas
            /\ info' = info
      ]_vars

\* the loader returned its counts with a row appended and no status in P
C12_Testigo ==
    /\ cp_pc = "reposo" /\ hn_pc = "reposo" /\ ejecuciones = 1
    /\ cp_resultado.tipo = "retorno"
    /\ cp_resultado.cargados >= 1
    /\ fallas = 1
    /\ \A i \in 1..Len(info) : info[i].p = << >>
    /\ \E h \in DOMAIN hojas : \E k \in 1..Len(hojas[h]) :
          hojas[h][k] \in {filas_por_hoja[j].filas[1] : j \in {n \in 1..Len(filas_por_hoja) :
                                                                filas_por_hoja[n].filas # << >>}}

\* the rows queued for a sheet by the run of the loader differ, in
\* identifier, day and month, from every row stored in that sheet
ColaSinGuardados ==
    \A k \in 1..Len(filas_por_hoja) :
        filas_por_hoja[k].hoja \in DOMAIN hojas =>
            \A f \in 1..Len(filas_por_hoja[k].filas) :
                \A r \in 1..Len(hojas[filas_por_hoja[k].hoja]) :
                    ~MismaTupla(hojas[filas_por_hoja[k].hoja][r], filas_por_hoja[k].filas[f])

\* C27: in a run of the loader where the read of a period sheet has failed
\* at one receipt (status "Error"), the later receipts are still compared
\* with the rows stored in that sheet: no row is queued whose identifier,
\* day and month are those of a stored row.
C27_ChequeoTrasFalla ==
    (/\ cp_pc \in {"filas", "escribir"}
     /\ \E i \in 1..Len(estados) : estados[i] = <<"Error">>) => ColaSinGuardados

\* one sequence of rows begins with another
EmpiezaCon(despues, antes) ==
    /\ Len(despues) >= Len(antes)
    /\ SubSeq(despues, 1, Len(antes)) = antes

\* C22: no step of ejecutar_carga_pagos or ejecutar_honorarios removes,
\* moves or changes a row of a period sheet: every sheet is there after the
\* step and begins with the rows it had, field by field; what a step adds
\* comes after them.
C22_SoloAgrega ==
    [][\A h \in DOMAIN hojas :
          /\ h \in DOMAIN hojas'
          /\ EmpiezaCon(hojas'[h], hojas[h])]_vars

\* March 2025 began with two entries and holds them, in place, under a row
\* appended by a run of each loader: a clone of the second entry marked as
\* honorarium and a plain entry
C22_Testigo ==
    /\ cp_pc = "reposo" /\ hn_pc = "reposo"
    /\ Len(hojas[<<2, 25>>]) >= 4
    /\ EmpiezaCon(hojas[<<2, 25>>], HojasPrueba2Mar)
    /\ \E k \in 3..Len(hojas[<<2, 25>>]) : hojas[<<2, 25>>][k].honorario # << >>
    /\ \E k \in 3..Len(hojas[<<2, 25>>]) : hojas[<<2, 25>>][k].honorario = << >>

(***************************************************************************)
(* calendar_ar: holidays and business days                                 *)
(*                                                                         *)
(* A date is [anio, mes, dia] with mes in 1..12; datetime.date holds the   *)
(* dates from 0001-01-01 to 9999-12-31.  A holiday is a 'YYYY-MM-DD' text. *)
(* Every function of the source that reads or fills _feriados_cache takes  *)
(* the cache and the request counts and gives them back with its value.    *)
(***************************************************************************)
\* lines 15-34
FERIADOS_FALLBACK ==
    (2024 :> {
        <<"2", "0", "2", "4", "-", "0", "1", "-", "0", "1">>,
        <<"2", "0", "2", "4", "-", "0", "2", "-", "1", "2">>,
        <<"2", "0", "2", "4", "-", "0", "2", "-", "1", "3">>,
        <<"2", "0", "2", "4", "-", "0", "3", "-", "2", "4">>,
        <<"2", "0", "2", "4", "-", "0", "3", "-", "2", "9">>,
        <<"2", "0", "2", "4", "-", "0", "4", "-", "0", "2">>,
        <<"2", "0", "2", "4", "-", "0", "5", "-", "0", "1">>,
        <<"2", "0", "2", "4", "-", "0", "5", "-", "2", "5">>,
        <<"2", "0", "2", "4", "-", "0", "6", "-", "1", "7">>,
        <<"2", "0", "2", "4", "-", "0", "6", "-", "2", "0">>,
        <<"2", "0", "2", "4", "-", "0", "7", "-", "0", "9">>,
        <<"2", "0", "2", "4", "-", "0", "8", "-", "1", "7">>,
        <<"2", "0", "2", "4", "-", "1", "0", "-", "1", "2">>,
        <<"2", "0", "2", "4", "-", "1", "1", "-", "1", "8">>,
        <<"2", "0", "2", "4", "-", "1", "2", "-", "0", "8">>,
        <<"2", "0", "2", "4", "-", "1", "2", "-", "2", "5">>})
    @@ (2025 :> {
        <<"2", "0", "2", "5", "-", "0", "1", "-", "0", "1">>,
        <<"2", "0", "2", "5", "-", "0", "3", "-", "0", "3">>,
        <<"2", "0", "2", "5", "-", "0", "3", "-", "0", "4">>,
        <<"2", "0", "2", "5", "-", "0", "3", "-", "2", "4">>,
        <<"2", "0", "2", "5", "-", "0", "4", "-", "0", "2">>,
        <<"2", "0", "2", "5", "-", "0", "4", "-", "1", "8">>,
        <<"2", "0", "2", "5", "-", "0", "5", "-", "0", "1">>,
        <<"2", "0", "2", "5", "-", "0", "5", "-", "2", "5">>,
        <<"2", "0", "2", "5", "-", "0", "6", "-", "1", "6">>,
        <<"2", "0", "2", "5", "-", "0", "6", "-", "2", "0">>,
        <<"2", "0", "2", "5", "-", "0", "7", "-", "0", "9">>,
        <<"2", "0", "2", "5", "-", "0", "8", "-", "1", "8">>,
        <<"2", "0", "2", "5", "-", "1", "0", "-", "1", "3">>,
        <<"2", "0", "2", "5", "-", "1", "1", "-", "2", "4">>,
        <<"2", "0", "2", "5", "-", "1", "2", "-", "0", "8">>,
        <<"2", "0", "2", "5", "-", "1", "2", "-", "2", "5">>})
    @@ (2026 :> {
        <<"2", "0", "2", "6", "-", "0", "1", "-", "0", "1">>,
        <<"2", "0", "2", "6", "-", "0", "2", "-", "1", "6">>,
        <<"2", "0", "2", "6", "-", "0", "2", "-", "1", "7">>,
        <<"2", "0", "2", "6", "-", "0", "3", "-", "2", "4">>,
        <<"2", "0", "2", "6", "-", "0", "4", "-", "0", "2">>,
        <<"2", "0", "2", "6", "-", "0", "4", "-", "0", "3">>,
        <<"2", "0", "2", "6", "-", "0", "5", "-", "0", "1">>,
        <<"2", "0", "2", "6", "-", "0", "5", "-", "2", "5">>,
        <<"2", "0", "2", "6", "-", "0", "6", "-", "1", "5">>,
        <<"2", "0", "2", "6", "-", "0", "6", "-", "2", "0">>,
        <<"2", "0", "2", "6", "-", "0", "7", "-", "0", "9">>,
        <<"2", "0", "2", "6", "-", "0", "8", "-", "1", "7">>,
        <<"2", "0", "2", "6", "-", "1", "0", "-", "1", "2">>,
        <<"2", "0", "2", "6", "-", "1", "1", "-", "2", "3">>,
        <<"2", "0", "2", "6", "-", "1", "2", "-", "0", "8">>,
        <<"2", "0", "2", "6", "-", "1", "2", "-", "2", "5">>})

\* datetime.date: the last date there is, the constructor's ValueError
UltimaFecha == [anio |-> 9999, mes |-> 12, dia |-> 31]

FechaValida(anio, mes, dia) ==
    /\ anio \in 1..UltimaFecha.anio
    /\ mes \in 1..12
    /\ dia \in 1..DiasDelMes(mes, anio)

\* the days of the year before the first of the month
DiasAntesDelMes(anio, mes) ==
    <<0, 31, 59, 90, 120, 151, 181, 212, 243, 273, 304, 334>>[mes]
        + (IF mes > 2 /\ DiasDelMes(2, anio) = 29 THEN 1 ELSE 0)

\* date.toordinal(): 0001-01-01 is day 1
toordinal(d) ==
    (d.anio - 1) * 365 + (d.anio - 1) \div 4 - (d.anio - 1) \div 100 + (d.anio - 1) \div 400
        + DiasAntesDelMes(d.anio, d.mes) + d.dia

\* date.weekday(): Monday is 0, Saturday 5, Sunday 6
weekday(d) == (toordinal(d) + 6) % 7

\* d + timedelta(days=1), defined below UltimaFecha
MasUnDia(d) ==
    IF d.dia < DiasDelMes(d.mes, d.anio) THEN [d EXCEPT !.dia = @ + 1]
    ELSE IF d.mes < 12 THEN [anio |-> d.anio, mes |-> d.mes + 1, dia |-> 1]
    ELSE [anio |-> d.anio + 1, mes |-> 1, dia |-> 1]

\* date.isoformat(): 'YYYY-MM-DD', zero-padded
DosCifras(n) == <<DigitosEnOrden[((n \div 10) % 10) + 1], DigitosEnOrden[(n % 10) + 1]>>

isoformat(d) ==
    DosCifras(d.anio \div 100) \o DosCifras(d.anio) \o <<"-">> \o DosCifras(d.mes)
        \o <<"-">> \o DosCifras(d.dia)

\* line 59: FERIADOS_FALLBACK.get(year, [])
fallback_vacio(year) == {}

fallback_de(year) ==
    IF year \in DOMAIN FERIADOS_FALLBACK THEN FERIADOS_FALLBACK[year] ELSE {}

\* lines 45-56: what the attempt on the remote source leaves in feriados.
\* requests.get raises ("red"), answers another status ("no200"), answers
\* 200 with a payload that json() or the comprehension rejects
\* ("malformado"), or answers 200 with a list of holidays ("exito"); an
\* exception leaves the empty set assigned at line 42
intento_api(resp) == IF resp.tipo = "exito" THEN resp.fechas ELSE {}

\* one more request for the year
una_consulta(cons, year) ==
    IF year \in DOMAIN cons THEN [cons EXCEPT ![year] = @ + 1] ELSE cons @@ (year :> 1)

\* get_feriados without lines 39-40
get_feriados_sin_cache(cache, cons, year, remoto) ==
    LET guardar(feriados) ==
            [cache |-> [y \in DOMAIN cache \cup {year} |->
                           IF y = year THEN feriados ELSE cache[y]],
             cons |-> una_consulta(cons, year),
             feriados |-> feriados]
    IN  guardar(intento_api(remoto[year]) \cup fallback_de(year))

\* get_feriados(year); remoto[year] is the answer of the remote source to a
\* request for the year
get_feriados(cache, cons, year, remoto) ==
    IF year \in DOMAIN cache
    THEN [cache |-> cache, cons |-> cons, feriados |-> cache[year]]
    ELSE LET guardar(feriados) ==
                 [cache |-> cache @@ (year :> feriados),
                  cons |-> una_consulta(cons, year),
                  feriados |-> feriados]
         IN  guardar(intento_api(remoto[year]) \cup fallback_de(year))

\* es_dia_habil(d): the holidays are not asked for on a Saturday or Sunday
es_dia_habil(cache, cons, d, remoto) ==
    IF weekday(d) >= 5
    THEN [cache |-> cache, cons |-> cons, habil |-> FALSE]
    ELSE LET con(g) == [cache |-> g.cache, cons |-> g.cons,
                        habil |-> isoformat(d) \notin g.feriados]
         IN  con(get_feriados(cache, cons, d.anio, remoto))

\* the same test stopping at the first day tried
proximo_dia_habil_sin_avance(cache, cons, d, remoto) ==
    LET paso(e) == [tipo |-> "retorno", fecha |-> d, cache |-> e.cache, cons |-> e.cons]
    IN  paso(es_dia_habil(cache, cons, d, remoto))

\* proximo_dia_habil(d); the addition raises OverflowError at UltimaFecha
RECURSIVE proximo_dia_habil(_, _, _, _)
proximo_dia_habil(cache, cons, d, remoto) ==
    LET paso(e) ==
            IF e.habil
            THEN [tipo |-> "retorno", fecha |-> d, cache |-> e.cache, cons |-> e.cons]
            ELSE IF d = UltimaFecha
                 THEN [tipo |-> "excepcion", cache |-> e.cache, cons |-> e.cons]
                 ELSE proximo_dia_habil(e.cache, e.cons, MasUnDia(d), remoto)
    IN  paso(es_dia_habil(cache, cons, d, remoto))

\* Optional[int]: None, or <<n>> for the integer n
None == << >>

\* the count with the weekends in it
contar_dias(fecha, feriados) ==
    Cardinality({n \in 1..fecha.dia : isoformat([fecha EXCEPT !.dia = n]) \notin feriados})

\* the count with the holidays in it
contar_habiles_sin_feriados(fecha, feriados) ==
    Cardinality({n \in 1..fecha.dia : weekday([fecha EXCEPT !.dia = n]) < 5})

\* lines 98-103: the weekdays of the month up to the day that are not in
\* the set
contar_habiles(fecha, feriados) ==
    Cardinality({n \in 1..fecha.dia :
                    /\ weekday([fecha EXCEPT !.dia = n]) < 5
                    /\ isoformat([fecha EXCEPT !.dia = n]) \notin feriados})

\* calcular_dia_habil_del_mes(dia, mes, anio), mes counted from 0
calcular_dia_habil_del_mes(cache, cons, dia, mes, anio, remoto) ==
    IF ~FechaValida(anio, mes + 1, dia)
    THEN [tipo |-> "retorno", valor |-> None, cache |-> cache, cons |-> cons]
    ELSE LET contar(g, habiles) ==
                 [tipo |-> "retorno",
                  valor |-> IF habiles > 0 THEN <<habiles>> ELSE None,
                  cache |-> g.cache, cons |-> g.cons]
             con_feriados(fecha, g) == contar(g, contar_habiles(fecha, g.feriados))
             movida(p) ==
                 IF p.tipo = "excepcion" THEN p
                 ELSE con_feriados(p.fecha, get_feriados(p.cache, p.cons, p.fecha.anio, remoto))
         IN  movida(proximo_dia_habil(cache, cons,
                                      [anio |-> anio, mes |-> mes + 1, dia |-> dia], remoto))

(***************************************************************************)
(* The calendar called with bounded inputs                                 *)
(***************************************************************************)
Anios == {2025, 2026, 9999}

\* the days a remote answer may add to the table of the year
RemotoFechas(year) ==
    IF year = 2025 THEN {<<"2", "0", "2", "5", "-", "1", "2", "-", "3", "1">>}
    ELSE IF year = 2026 THEN {<<"2", "0", "2", "6", "-", "0", "1", "-", "0", "2">>}
    ELSE {<<"9", "9", "9", "9", "-", "1", "2", "-", "3", "1">>}

Respuestas(year) ==
    {[tipo |-> "red"], [tipo |-> "no200"], [tipo |-> "malformado"]}
        \cup {[tipo |-> "exito", fechas |-> R] : R \in SUBSET RemotoFechas(year)}

\* the answers to the requests a call on a date of the year can send: any
\* answer for the year itself, a failure or every added day for the next
Remotos(anio) ==
    LET siguiente == {anio + 1} \cap Anios
        otras(y) == {[tipo |-> "red"], [tipo |-> "exito", fechas |-> RemotoFechas(y)]}
    IN  UNION {{(anio :> r) @@ s : s \in [siguiente -> UNION {otras(y) : y \in siguiente}]} :
               r \in Respuestas(anio)}

\* <<dia, mes counted from 0, anio>>: February 2025, without holidays; the
\* ends of May and December 2025; the last days there are; dates that are
\* none
ArgumentosFrontera ==
    {<<d, 4, 2025>> : d \in {1, 30, 31}}
        \cup {<<d, 11, 2025>> : d \in {27, 31}}
        \cup {<<1, 0, 2026>>, <<31, 5, 2026>>, <<1, 12, 2025>>, <<0, 1, 2025>>}
        \cup {<<d, 11, 9999>> : d \in {25, 31}}

ArgumentosPrueba == {<<d, 1, 2025>> : d \in 1..31} \cup ArgumentosFrontera

FechasPrueba ==
    {[anio |-> a[3], mes |-> a[2] + 1, dia |-> a[1]] :
        a \in {b \in ArgumentosFrontera \cup {<<1, 1, 2025>>, <<28, 1, 2025>>} :
                  FechaValida(b[3], b[2] + 1, b[1])}}

LlamarGetFeriados ==
    \E year \in Anios : \E r \in Respuestas(year) :
        LET llamada(g) ==
                /\ feriados_cache' = g.cache
                /\ consultas' = g.cons
                /\ cal_llamada' = [op |-> "get_feriados", anio |-> year, respuesta |-> r,
                                   tipo |-> "retorno", feriados |-> g.feriados]
        IN  /\ llamada(get_feriados(feriados_cache, consultas, year, (year :> r)))
            /\ UNCHANGED <<varsParsers, varsStore, varsCuotas, varsFila, varsPipelines, varsMontos,
                           varsExtra>>

LlamarProximoDiaHabil ==
    \E d \in FechasPrueba : \E remoto \in Remotos(d.anio) :
        LET llamada(p) ==
                /\ feriados_cache' = p.cache
                /\ consultas' = p.cons
                /\ cal_llamada' =
                       IF p.tipo = "retorno"
                       THEN [op |-> "proximo_dia_habil", d |-> d, tipo |-> "retorno",
                             fecha |-> p.fecha]
                       ELSE [op |-> "proximo_dia_habil", d |-> d, tipo |-> "excepcion"]
        IN  /\ llamada(proximo_dia_habil(feriados_cache, consultas, d, remoto))
            /\ UNCHANGED <<varsParsers, varsStore, varsCuotas, varsFila, varsPipelines, varsMontos,
                           varsExtra>>

LlamarCalcularDiaHabil ==
    \E a \in ArgumentosPrueba : \E remoto \in Remotos(a[3]) :
        LET llamada(c) ==
                /\ feriados_cache' = c.cache
                /\ consultas' = c.cons
                /\ cal_llamada' =
                       IF c.tipo = "retorno"
                       THEN [op |-> "calcular_dia_habil_del_mes", dia |-> a[1], mes |-> a[2],
                             anio |-> a[3], tipo |-> "retorno", valor |-> c.valor]
                       ELSE [op |-> "calcular_dia_habil_del_mes", dia |-> a[1], mes |-> a[2],
                             anio |-> a[3], tipo |-> "excepcion"]
        IN  /\ llamada(calcular_dia_habil_del_mes(feriados_cache, consultas,
                                                  a[1], a[2], a[3], remoto))
            /\ UNCHANGED <<varsParsers, varsStore, varsCuotas, varsFila, varsPipelines, varsMontos,
                           varsExtra>>

InitCalendario ==
    /\ archivo = << >>
    /\ dni_normal = Pendiente
    /\ dni_honorario = Pendiente
    /\ PurosSinUso
    /\ header_pro = << >>
    /\ data_pro = << >>
    /\ hojas = [h \in NombresHoja |-> << >>]
    /\ ahora = [mesIdx |-> 2, anio |-> 2025]
    /\ CuotasEnReposo
    /\ PipelinesSinUso

NextCalendario == LlamarGetFeriados \/ LlamarProximoDiaHabil \/ LlamarCalcularDiaHabil

SpecCalendario == InitCalendario /\ [][NextCalendario]_vars

(***************************************************************************)
(* Properties of the calendar                                              *)
(***************************************************************************)
\* the entry of the fallback table for the year, read from the table itself
TablaDelAnio(year) ==
    IF year \in DOMAIN FERIADOS_FALLBACK THEN FERIADOS_FALLBACK[year] ELSE {}

\* the holidays a remote answer carries, none when it is a failure
FechasRemotas(r) == IF r.tipo = "exito" THEN r.fechas ELSE {}

\* C13: get_feriados never raises and its set always holds the fallback
\* dates of the year; when the remote source is asked, whatever it does
\* (network error, another status, malformed payload, success), the set
\* returned is the remote dates, or none on a failure, united with the
\* fallback entry of the year, hence empty when both are empty.
C13_RemotoMasTabla ==
    [][cal_llamada'.op = "get_feriados" =>
          /\ cal_llamada'.tipo = "retorno"
          /\ TablaDelAnio(cal_llamada'.anio) \subseteq cal_llamada'.feriados
          /\ consultas' # consultas =>
                /\ cal_llamada'.feriados =
                       FechasRemotas(cal_llamada'.respuesta) \cup TablaDelAnio(cal_llamada'.anio)
                /\ (FechasRemotas(cal_llamada'.respuesta) = {}
                        /\ TablaDelAnio(cal_llamada'.anio) = {}) => cal_llamada'.feriados = {}]_vars

\* a malformed payload for 2025 has left the fallback dates of 2025
C13_Testigo ==
    /\ cal_llamada.op = "get_feriados"
    /\ cal_llamada.anio = 2025
    /\ cal_llamada.respuesta.tipo = "malformado"
    /\ cal_llamada.feriados = FERIADOS_FALLBACK[2025]
    /\ Cardinality(cal_llamada.feriados) = 16

\* C19: the remote source is asked at most once for a year; the set cached
\* for a year never changes, and a call of get_feriados for a cached year
\* returns that set without a request, also when the first attempt failed
\* and the fallback alone, or the empty set, was cached.
C19_UnaConsultaPorAnio ==
    [][/\ \A y \in DOMAIN feriados_cache :
             y \in DOMAIN feriados_cache' /\ feriados_cache'[y] = feriados_cache[y]
       /\ \A y \in DOMAIN consultas' : consultas'[y] <= 1
       /\ (cal_llamada'.op = "get_feriados" /\ cal_llamada'.anio \in DOMAIN feriados_cache) =>
             /\ cal_llamada'.feriados = feriados_cache[cal_llamada'.anio]
             /\ consultas' = consultas]_vars

\* the attempt for 2025 failed; a later call, that the remote source would
\* have answered with a holiday more, returns the fallback dates alone
C19_Testigo ==
    /\ cal_llamada.op = "get_feriados"
    /\ cal_llamada.anio = 2025
    /\ cal_llamada.respuesta.tipo = "exito"
    /\ cal_llamada.respuesta.fechas # {}
    /\ cal_llamada.feriados = FERIADOS_FALLBACK[2025]
    /\ consultas[2025] = 1

\* the date k days after d, for dates up to UltimaFecha
RECURSIVE Avanzar(_, _)
Avanzar(d, k) == IF k = 0 THEN d ELSE Avanzar(MasUnDia(d), k - 1)

\* is_business_day by the sets the process holds
HabilSegunCache(f) ==
    /\ weekday(f) < 5
    /\ f.anio \in DOMAIN feriados_cache
    /\ isoformat(f) \notin feriados_cache[f.anio]

\* r is the first business day from d on
PrimerHabilDesde(d, r) ==
    /\ toordinal(r) >= toordinal(d)
    /\ HabilSegunCache(r)
    /\ \A k \in 0..(toordinal(r) - toordinal(d) - 1) : ~HabilSegunCache(Avanzar(d, k))

\* no business day is left from d to the last date there is
SinHabilDesde(d) ==
    \A k \in 0..(toordinal(UltimaFecha) - toordinal(d)) : ~HabilSegunCache(Avanzar(d, k))

\* C14 as stated: for every date and every finite holiday set
\* proximo_dia_habil returns the earliest business day from d on.
C14_SiempreRetorna ==
    cal_llamada.op = "proximo_dia_habil" =>
        /\ cal_llamada.tipo = "retorno"
        /\ PrimerHabilDesde(cal_llamada.d, cal_llamada.fecha)

\* C14: proximo_dia_habil returns the earliest business day from d on (d
\* itself when it is one), also across the end of a month or of a year,
\* where the holidays of the other year are asked for; it raises, and only
\* then, when no business day is left up to 9999-12-31.
C14_ProximoHabil ==
    /\ (cal_llamada.op = "proximo_dia_habil" /\ cal_llamada.tipo = "retorno") =>
           PrimerHabilDesde(cal_llamada.d, cal_llamada.fecha)
    /\ (cal_llamada.op = "proximo_dia_habil" /\ cal_llamada.tipo = "excepcion") =>
           SinHabilDesde(cal_llamada.d)

\* the last day of 2025, a holiday by the remote answer, moved over the
\* holiday of 1 January 2026 to 2 January
C14_Testigo ==
    /\ cal_llamada.op = "proximo_dia_habil"
    /\ cal_llamada.d = [anio |-> 2025, mes |-> 12, dia |-> 31]
    /\ cal_llamada.tipo = "retorno"
    /\ cal_llamada.fecha = [anio |-> 2026, mes |-> 1, dia |-> 2]

\* the month has no holiday in the set of its year
MesSinFeriados(mes, anio) ==
    /\ anio \in DOMAIN feriados_cache
    /\ \A n \in 1..DiasDelMes(mes, anio) :
          isoformat([anio |-> anio, mes |-> mes, dia |-> n]) \notin feriados_cache[anio]

\* the Saturdays and Sundays among the days 1..dia of the month
FinesDeSemana(dia, mes, anio) ==
    Cardinality({n \in 1..dia : weekday([anio |-> anio, mes |-> mes, dia |-> n]) >= 5})

\* the call was made on a day of a month without holidays
EnMesSinFeriados ==
    /\ cal_llamada.op = "calcular_dia_habil_del_mes"
    /\ FechaValida(cal_llamada.anio, cal_llamada.mes + 1, cal_llamada.dia)
    /\ MesSinFeriados(cal_llamada.mes + 1, cal_llamada.anio)

\* C15 as stated: in a month without holidays the ordinal of every valid
\* day is the day minus the weekend days up to it.
C15_TodoDia ==
    EnMesSinFeriados =>
        /\ cal_llamada.tipo = "retorno"
        /\ cal_llamada.valor =
               <<cal_llamada.dia - FinesDeSemana(cal_llamada.dia, cal_llamada.mes + 1, cal_llamada.anio)>>

\* C15: in a month without holidays the ordinal of every day that is not a
\* Saturday or a Sunday is the day minus the weekend days up to it.
C15_DiaDeSemana ==
    (/\ EnMesSinFeriados
     /\ weekday([anio |-> cal_llamada.anio, mes |-> cal_llamada.mes + 1, dia |-> cal_llamada.dia]) < 5) =>
        /\ cal_llamada.tipo = "retorno"
        /\ cal_llamada.valor =
               <<cal_llamada.dia - FinesDeSemana(cal_llamada.dia, cal_llamada.mes + 1, cal_llamada.anio)>>

\* Friday 28 February 2025 is the 20th business day of its month
C15_Testigo ==
    /\ EnMesSinFeriados
    /\ cal_llamada.dia = 28 /\ cal_llamada.mes = 1 /\ cal_llamada.anio = 2025
    /\ cal_llamada.valor = <<20>>

MaxSalto == 10

\* next_business_day of d by the sets the process holds, looked for within
\* MaxSalto days
ProximoSegunCache(d) ==
    LET alcance == Min({MaxSalto, toordinal(UltimaFecha) - toordinal(d)})
    IN  Avanzar(d, Min({k \in 0..alcance : HabilSegunCache(Avanzar(d, k))}))

\* the business days from the first of the month of f through f
HabilesHasta(f) ==
    Cardinality({n \in 1..f.dia : HabilSegunCache([f EXCEPT !.dia = n])})

FechaLlamada == [anio |-> cal_llamada.anio, mes |-> cal_llamada.mes + 1, dia |-> cal_llamada.dia]

\* C20 as stated: every valid date gets a positive ordinal, that of the
\* snapped date; every invalid date gets null.
C20_SiempreOrdinal ==
    cal_llamada.op = "calcular_dia_habil_del_mes" =>
        /\ cal_llamada.tipo = "retorno"
        /\ IF FechaValida(cal_llamada.anio, cal_llamada.mes + 1, cal_llamada.dia)
           THEN /\ cal_llamada.valor # None
                /\ cal_llamada.valor[1] > 0
                /\ cal_llamada.valor = <<HabilesHasta(ProximoSegunCache(FechaLlamada))>>
           ELSE cal_llamada.valor = None

\* C20: for a date that is none the result is null; for a valid date the
\* result is a positive integer, the number of business days from day 1
\* through the day of next_business_day(date), counted in the month of the
\* snapped date with the holidays of its year, also when the snap crosses
\* the end of a month or of a year; the call raises, and only then, when no
\* business day is left up to 9999-12-31.
C20_OrdinalDeLaMovida ==
    cal_llamada.op = "calcular_dia_habil_del_mes" =>
        IF ~FechaValida(cal_llamada.anio, cal_llamada.mes + 1, cal_llamada.dia)
        THEN cal_llamada.tipo = "retorno" /\ cal_llamada.valor = None
        ELSE IF cal_llamada.tipo = "excepcion"
             THEN SinHabilDesde(FechaLlamada)
             ELSE /\ cal_llamada.valor # None
                  /\ cal_llamada.valor[1] > 0
                  /\ cal_llamada.valor = <<HabilesHasta(ProximoSegunCache(FechaLlamada))>>

\* 31 December 2025, a holiday by the remote answer, is counted as 2 January
\* 2026, the first business day of its month
C20_Testigo ==
    /\ cal_llamada.op = "calcular_dia_habil_del_mes"
    /\ cal_llamada.dia = 31 /\ cal_llamada.mes = 11 /\ cal_llamada.anio = 2025
    /\ isoformat(FechaLlamada) \in feriados_cache[2025]
    /\ cal_llamada.valor = <<1>>

(***************************************************************************)
(* parsear_monto_float called with bounded texts                           *)
(***************************************************************************)
MaxMonto == 6

AlfabetoMonto == {"1", "5", ".", ",", "$"}

Txt90000con50 == <<"9", "0", ".", "0", "0", "0", ",", "5", "0">>
Txt120000 == <<"1", "2", "0", "0", "0", "0">>
Txt1punto234 == <<"1", ".", "2", "3", "4">>
Txt1coma5 == <<"1", ",", "5">>

MontosPrueba ==
    UNION {[1..n -> AlfabetoMonto] : n \in 0..MaxMonto}
        \cup {Txt90000con50, Txt120000, Txt1punto234, Txt1coma5}

LlamarParsearMonto ==
    /\ monto_float.tipo = "pendiente"
    /\ monto_float' = [tipo |-> "retorno", valor |-> parsear_monto_float(monto_texto)]
    /\ UNCHANGED <<monto_texto, varsParsers, varsStore, varsCuotas, varsFila, varsPipelines,
                   varsCalendario, varsExtra>>

InitMontos ==
    /\ archivo = << >>
    /\ dni_normal = Pendiente
    /\ dni_honorario = Pendiente
    /\ CalendarioSinUso
    /\ ExtraSinUso
    /\ monto_texto \in MontosPrueba
    /\ monto_float = [tipo |-> "pendiente"]
    /\ header_pro = << >>
    /\ data_pro = << >>
    /\ hojas = [h \in NombresHoja |-> << >>]
    /\ ahora = [mesIdx |-> 2, anio |-> 2025]
    /\ CuotasEnReposo
    /\ PipelinesSinUso

NextMontos == LlamarParsearMonto

SpecMontos == InitMontos /\ [][NextMontos]_vars

\* the text as the parser sees it once the other characters are gone
SoloCifrasYSeparadores == SelectSeq(monto_texto, LAMBDA ch : ch \in Digitos \cup {".", ","})

\* the number read with the only separator as decimal sign, 0.0 when the
\* text is not a number that way
LecturaDecimal(s, sep) ==
    IF Cuenta(s, sep) # 1 \/ Len(s) = 1 THEN Cero
    ELSE [num |-> ValorDigitos(Quitar(s, sep)), dec |-> Len(s) - Min({i \in 1..Len(s) : s[i] = sep})]

\* the number read with the separators as thousands marks
LecturaMiles(s, sep) ==
    IF Quitar(s, sep) = << >> THEN Cero ELSE Entero(ValorDigitos(Quitar(s, sep)))

\* characters after the last separator
CifrasTras(s, sep) == Len(s) - Max({i \in 1..Len(s) : s[i] = sep})

SoloComas(s) == Cuenta(s, ",") > 0 /\ Cuenta(s, ".") = 0
SoloPuntos(s) == Cuenta(s, ".") > 0 /\ Cuenta(s, ",") = 0

\* the four examples of the claim
EjemplosDeMonto ==
    /\ monto_texto = Txt90000con50 => Igual(monto_float.valor, [num |-> 9000050, dec |-> 2])
    /\ monto_texto = Txt120000 => Igual(monto_float.valor, Entero(120000))
    /\ monto_texto = Txt1punto234 => Igual(monto_float.valor, Entero(1234))
    /\ monto_texto = Txt1coma5 => Igual(monto_float.valor, [num |-> 15, dec |-> 1])

\* C16 as stated: a comma is the decimal sign only before exactly two
\* digits; a dot is a thousands mark before three digits or more and the
\* decimal sign otherwise.
C16_ExactamenteDos ==
    monto_float.tipo = "retorno" =>
        LET regla(s) ==
                /\ SoloComas(s) =>
                       Igual(monto_float.valor,
                             IF CifrasTras(s, ",") = 2 THEN LecturaDecimal(s, ",")
                             ELSE LecturaMiles(s, ","))
                /\ SoloPuntos(s) =>
                       Igual(monto_float.valor,
                             IF CifrasTras(s, ".") >= 3 THEN LecturaMiles(s, ".")
                             ELSE LecturaDecimal(s, "."))
        IN  regla(SoloCifrasYSeparadores) /\ EjemplosDeMonto

\* C16: in a text with commas and no dot, the comma is the decimal sign
\* when it is the only comma and at most two digits follow it, and the
\* commas are thousands marks otherwise; in a text with dots and no comma,
\* the dots are thousands marks when there are two dots or more or when
\* three digits or more follow the only dot, and the dot is the decimal sign
\* otherwise; "90.000,50" gives 90000.50, "120000" gives 120000, "1.234"
\* gives 1234 and "1,5" gives 1.5.
C16_Separadores ==
    monto_float.tipo = "retorno" =>
        LET regla(s) ==
                /\ SoloComas(s) =>
                       Igual(monto_float.valor,
                             IF Cuenta(s, ",") = 1 /\ CifrasTras(s, ",") <= 2
                             THEN LecturaDecimal(s, ",") ELSE LecturaMiles(s, ","))
                /\ SoloPuntos(s) =>
                       Igual(monto_float.valor,
                             IF Cuenta(s, ".") >= 2 \/ CifrasTras(s, ".") >= 3
                             THEN LecturaMiles(s, ".") ELSE LecturaDecimal(s, "."))
        IN  regla(SoloCifrasYSeparadores) /\ EjemplosDeMonto

\* "1,5" has been read as 1.5: one digit after the comma
C16_Testigo ==
    /\ monto_texto = Txt1coma5
    /\ monto_float.tipo = "retorno"
    /\ monto_float.valor = [num |-> 15, dec |-> 1]

\* the integer part of an amount
ParteEntera(m) == m.num \div Pot10(m.dec)

\* C29: for every raw amount text, the flat integer amount of column V
\* (limpiar_monto_sin_decimales) is a text of digits whose value is the
\* integer part of the number that parsear_monto_float gives for the text,
\* and of the number it gives for the amount of column D
\* (extraer_solo_numeros_crudos).
C29_MontosDeAcuerdo ==
    monto_float.tipo = "retorno" =>
        /\ \A k \in 1..Len(limpiar_monto_sin_decimales(monto_texto)) :
              IsDigit(limpiar_monto_sin_decimales(monto_texto)[k])
        /\ ValorDigitos(limpiar_monto_sin_decimales(monto_texto)) = ParteEntera(monto_float.valor)
        /\ ValorDigitos(limpiar_monto_sin_decimales(monto_texto))
               = ParteEntera(parsear_monto_float(extraer_solo_numeros_crudos(monto_texto)))

(***************************************************************************)
(* SpecCarga: ejecutar_carga_pagos over one receipt and one contract, with *)
(* the contract's type, its month columns and their layout, and the        *)
(* receipt's amount and month drawn from bounded sets                      *)
(***************************************************************************)
\* the month columns in no chronological order and February in two years;
\* the columns of 2025 in order; March in two years, the older one first
HeadersCarga ==
    {HeaderCompleto,
     <<Encabezado("pago", 0, 25), Encabezado("pago", 1, 25), Encabezado("pago", 2, 25),
       Encabezado("valor", 2, 25), Encabezado("pago", 3, 25), Encabezado("saldo", 2, 25)>>,
     <<Encabezado("pago", 2, 24), Encabezado("pago", 3, 24), Encabezado("pago", 1, 25),
       Encabezado("pago", 2, 25), Encabezado("valor", 2, 25), Encabezado("pago", 3, 25)>>}

\* the cells of the six month columns of a contract
MesesCarga ==
    {<<Txt1000, Txt100, Txt200, Txt400, Txt1000, Txt800>>,
     <<<< >>, <<"0">>, Txt50, << >>, Txt2000, << >>>>}

\* the free text of column 5 of Pro
TiposCarga ==
    {<<"C", "u", "o", "t", "a">>,
     <<"T", "o", "t", "a", "l">>,
     <<"P", "a", "g", "o", " ", "p", "a", "r", "c", "i", "a", "l">>,
     <<"A", "d", "e", "l", "a", "n", "t", "o">>,
     << >>}

\* a contract of total 1000 in installments of 500
ContratoCarga(tipo, meses) ==
    [FilaPro(DniA, CarteraComafi, Txt1000, meses) EXCEPT !.tipo = tipo, !.valor = Txt500]

\* no amount read; below the installment; the installment; the total; above
MontosCarga == {<< >>, Txt200, Txt500, Txt1000, Txt1000con50, Txt2000}

InitCarga ==
    /\ archivo = << >>
    /\ dni_normal = Pendiente
    /\ dni_honorario = Pendiente
    /\ PurosSinUso
    /\ header_pro \in HeadersCarga
    /\ data_pro \in {<<ContratoCarga(tipo, meses)>> : tipo \in TiposCarga, meses \in MesesCarga}
    /\ hojas = [h \in NombresHoja |-> << >>]
    /\ ahora = [mesIdx |-> 2, anio |-> 2025]
    /\ CuotasEnReposo
    /\ info \in {<<FilaInfo(ArchivoA, fecha, monto)>> :
                    fecha \in {Txt05del03, Txt05del01}, monto \in MontosCarga}
    /\ ejecuciones = 0
    /\ fallas = 0
    /\ CargaEnReposo
    /\ cp_resultado = [tipo |-> "ninguno"]
    /\ HonEnReposo
    /\ hn_resultado = [tipo |-> "ninguno"]

NextCarga == CargaInicio \/ CargaFila \/ CargaEscribir

SpecCarga == InitCarga /\ [][NextCarga]_vars

\* the contract an entry was built from: the last row of its identifier
ContratoDeEntrada(f) == pro_leido[Max(FilasDeContrato(f.dni))]

\* the month columns of periods before the period of the sheet that hold a
\* positive payment of the contract
PagosAnteriores(row, hoja) ==
    {c \in 1..Len(header_pro) :
        /\ header_pro[c].tipo = "pago"
        /\ parse_mes_anio_header(header_pro[c]) # Ninguno
        /\ ClaveMes(parse_mes_anio_header(header_pro[c])) < ClaveMes(<<hoja[1], 2000 + hoja[2]>>)
        /\ Menor(Cero, parsear_monto_float(row.meses[c]))}

\* C17: the installment number of every queued entry is 1 plus the number
\* of payment columns of its contract that are of periods before the
\* period of the receipt and hold a positive value, whatever the layout of
\* the columns.
C17_CuotaPorPeriodo ==
    \A k \in 1..Len(filas_por_hoja) : \A j \in 1..Len(filas_por_hoja[k].filas) :
        filas_por_hoja[k].filas[j].cuota =
            TextoDeEntero(1 + Cardinality(PagosAnteriores(
                                  ContratoDeEntrada(filas_por_hoja[k].filas[j]),
                                  filas_por_hoja[k].hoja)))

\* the code of each type
CodigoEsperado(tipo) ==
    CASE tipo = "Total" -> "PGTOT"
      [] tipo = "Cuota" -> "PGPREF"
      [] tipo = "Adelanto/Anticipo" -> "PGPREF"
      [] tipo = "Parcial" -> "PGPR"
      [] OTHER -> "VER"

\* the entry carries the type, and the code of the type
EscritaComo(f, tipo) == f.concepto = tipo /\ f.codigo = CodigoEsperado(tipo)

\* C18 as stated: Total is written as Parcial whenever the amount is below
\* the total of the contract, Cuota whenever it is below the installment
\* value; otherwise the classified type and its code are written.
C18_SiempreQueEsMenor ==
    \A k \in 1..Len(filas_por_hoja) : \A j \in 1..Len(filas_por_hoja[k].filas) :
        LET regla(f, row, monto) ==
                IF \/ tipo_pago(row.tipo) = "Total"
                      /\ Menor(monto, parsear_monto_float(row.total))
                   \/ tipo_pago(row.tipo) = "Cuota"
                      /\ Menor(monto, parsear_monto_float(row.valor))
                THEN EscritaComo(f, "Parcial")
                ELSE EscritaComo(f, tipo_pago(row.tipo))
        IN  regla(filas_por_hoja[k].filas[j], ContratoDeEntrada(filas_por_hoja[k].filas[j]),
                  parsear_monto_float(filas_por_hoja[k].filas[j].importe))

\* C18: a receipt classified Total is written as Parcial (PGPR) when its
\* amount is positive and below the total of the contract, one classified
\* Cuota when its amount is positive and below the installment value; in
\* every other case, an amount of zero or none among them, the classified
\* type and its code (Total PGTOT, Cuota and Adelanto/Anticipo PGPREF,
\* Parcial PGPR, else VER) are written.
C18_Degradacion ==
    \A k \in 1..Len(filas_por_hoja) : \A j \in 1..Len(filas_por_hoja[k].filas) :
        LET regla(f, row, monto) ==
                IF /\ Menor(Cero, monto)
                   /\ \/ tipo_pago(row.tipo) = "Total"
                         /\ Menor(monto, parsear_monto_float(row.total))
                      \/ tipo_pago(row.tipo) = "Cuota"
                         /\ Menor(monto, parsear_monto_float(row.valor))
                THEN EscritaComo(f, "Parcial")
                ELSE EscritaComo(f, tipo_pago(row.tipo))
        IN  regla(filas_por_hoja[k].filas[j], ContratoDeEntrada(filas_por_hoja[k].filas[j]),
                  parsear_monto_float(filas_por_hoja[k].filas[j].importe))

\* a receipt of 500 on a contract classified Total of 1000 is queued as
\* Parcial with the code PGPR
C18_Testigo ==
    \E k \in 1..Len(filas_por_hoja) : \E j \in 1..Len(filas_por_hoja[k].filas) :
        /\ tipo_pago(ContratoDeEntrada(filas_por_hoja[k].filas[j]).tipo) = "Total"
        /\ filas_por_hoja[k].filas[j].importe = Txt500
        /\ filas_por_hoja[k].filas[j].concepto = "Parcial"
        /\ filas_por_hoja[k].filas[j].codigo = "PGPR"

(***************************************************************************)
(* SpecCanal: resolver_cta_destino and the channel code of column W        *)
(* (cargar_pagos.py 40-161, 306-316; config.py 46-67).  The texts of the   *)
(* model hold no accented letter, so the removal of accents is not shown.  *)
(***************************************************************************)
DESTINATARIOS ==
    <<[namePago |-> <<"C", "t", "a", ".", " ", "C", "o", "m", "a", "f", "i">>,
       patrones |->
        <<<<"2", "9", "9", "0", "0", "0", "0", "0", "0", "0", "0", "0", "1", "0", "5", "4", "3", "9", "0", "0", "0", "8">>,
          <<"1", "0", "5", "4", "3", "/", "9">>,
          <<"3", "0", "-", "6", "0", "4", "7", "3", "1", "0", "1", "-", "8">>,
          <<"3", "0", "6", "0", "4", "7", "3", "1", "0", "1", "8">>,
          <<"2", "9", "0", "0", "0", "0", "0", "0", "0", "0", "0", "0", "1", "0", "5", "4", "3", "0", "0", "0", "0", "0">>,
          <<"M", "O", "Z", "O", ".", "T", "A", "P", "A", ".", "R", "O", "S", "T", "R", "O">>,
          <<"2", "9", "9", "0", "0", "0", "0", "0", "-", "0", "0", "0", "0", "1", "0", "5", "4", "3", "9", "0", "0", "0", "8">>>>],
      [namePago |-> <<"B", "a", "n", "c", "o">>,
       patrones |->
        <<<<"0", "1", "7", "0", "1", "5", "5", "1", "2", "0", "0", "0", "0", "0", "0", "1", "2", "5", "5", "5", "9", "5">>,
          <<"1", "5", "5", "-", "0", "1", "2", "5", "5", "5", "/", "9">>,
          <<"3", "0", "-", "7", "1", "6", "3", "1", "6", "8", "6", "-", "2">>,
          <<"3", "0", "7", "1", "6", "3", "1", "6", "8", "6", "2">>,
          <<"c", "o", "b", "r", "a", "n", "z", "a", "s", ".", "b", "f", "b">>>>],
      [namePago |-> <<"C", "t", "a", ".", " ", "C", "r", "e", "d", "i", "t", "i", "a">>,
       patrones |->
        <<<<"0", "9", "9", "-", "7", "2", "0", "7", "7", "7", "/", "6">>,
          <<"0", "1", "7", "0", "0", "9", "9", "2", "2", "0", "0", "0", "0", "0", "7", "2", "0", "7", "7", "7", "6", "6">>,
          <<"(", "0", "0", "0", ")", " ", "0", "3", "3", "6", "0", "0", "/", "2">>,
          <<"0", "7", "2", "0", "0", "0", "0", "7", "2", "0", "0", "0", "0", "0", "0", "3", "3", "6", "0", "0", "2", "2">>,
          <<"3", "0", "-", "7", "1", "2", "1", "3", "7", "3", "7", "-", "8">>,
          <<"3", "0", "-", "7", "1", "7", "8", "9", "3", "4", "2", "-", "1">>,
          <<"1", "0", "6", "0", "0", "1", "1", "4", "7", "3", "6", "7", "2", "8">>>>],
      [namePago |-> <<"C", "t", "a", ".", " ", "M", "i", "n", "s">>,
       patrones |->
        <<<<"2", "9", "9", "0", "1", "1", "3", "3", "1", "1", "3", "0", "0", "1", "5", "0", "4", "1", "0", "0", "0", "2">>,
          <<"3", "0", "-", "7", "1", "6", "8", "3", "0", "9", "3", "-", "0">>,
          <<"3", "0", "7", "1", "6", "8", "3", "0", "9", "3", "0">>>>],
      [namePago |-> <<"C", "t", "a", ".", " ", "R", "D", "A">>,
       patrones |->
        <<<<"0", "0", "0", "4", "1", "9", "4", "-", "6", " ", "0", "2", "4", "-", "7">>,
          <<"0", "0", "7", "0", "0", "2", "4", "5", "2", "0", "0", "0", "0", "0", "0", "4", "1", "9", "4", "6", "7", "1">>,
          <<"3", "3", "-", "7", "1", "5", "7", "3", "2", "9", "6", "-", "9", " ">>>>],
      [namePago |-> <<"C", "t", "a", ".", " ", "E", "x", "i">>,
       patrones |->
        <<<<"1", "8", "1", "5", "6", "-", "5", " ", "3", "3", "9", "-", "3">>,
          <<"0", "0", "7", "0", "3", "3", "9", "8", "2", "0", "0", "0", "0", "0", "1", "8", "1", "5", "6", "5", "3", "5">>,
          <<"3", "0", "-", "7", "1", "5", "8", "9", "3", "6", "0", "-", "2">>,
          <<"3", "0", "-", "7", "1", "8", "5", "1", "3", "4", "9", "-", "5">>,
          <<"2", "8", "5", "0", "7", "9", "3", "6", "3", "0", "0", "9", "4", "2", "1", "7", "1", "8", "4", "0", "8", "1">>>>],
      [namePago |-> <<"C", "t", "a", ".", " ", "E", "f", "e", "c", "t", "i", "v", "o", " ", "S", "i">>,
       patrones |->
        <<<<"3", "0", "5", "3", "8", "0", "0", "6", "4", "0", "4">>,
          <<"2", "7", "1", "2", "3", "6", "0", "1", "6", "5", "9">>,
          <<"0", "7", "2", "0", "0", "0", "0", "7", "2", "0", "0", "0", "0", "0", "0", "1", "6", "6", "3", "9", "1", "8">>,
          <<"2", "7", "1", "2", "3", "6", "0", "1", "6", "5", "9">>>>]>>

CANAL_TO_CODE ==
    <<<<<<"b", "a", "n", "c", "o">>, 2>>,
      <<<<"e", "s", "t", "u", "d", "i", "o">>, 1>>,
      <<<<"c", "t", "a", "c", "o", "m", "a", "f", "i">>, 25>>,
      <<<<"c", "t", "a", "c", "r", "e", "d", "i", "t", "i", "a">>, 24>>,
      <<<<"r", "a", "p", "i", "p", "a", "g", "o">>, 5>>,
      <<<<"o", "f", "c", "r", "e", "d", "i", "t", "i", "a">>, 23>>,
      <<<<"m", "e", "r", "c", "p", "a", "g", "o">>, 10>>,
      <<<<"p", "a", "g", "o", "m", "i", "s", "c", "u", "e", "n", "t", "a", "s">>, 26>>,
      <<<<"c", "t", "a", "e", "x", "i">>, 27>>,
      <<<<"c", "t", "a", "r", "d", "a">>, 31>>,
      <<<<"p", "a", "g", "o", "f", "a", "c", "i", "l">>, 4>>,
      <<<<"e", "f", "e", "c", "t", "i", "v", "o", "s", "i">>, 32>>,
      <<<<"c", "t", "a", "e", "f", "e", "c", "t", "i", "v", "o", "s", "i">>, 33>>,
      <<<<"m", "i", "n", "s">>, 66>>,
      <<<<"C", "t", "a", " ", "C", "r", "e", "d", "i", "t", "i", "a">>, 24>>,
      <<<<"C", "t", "a", ".", " ", "M", "i", "n", "s">>, 34>>,
      <<<<"c", "t", "a", " ", "E", "f", "e", "t", "i", "v", "o", " ", "S", "i">>, 33>>,
      <<<<"C", "t", "a", ".", " ", "C", "r", "e", "d", "i", "t", "i", "a">>, 24>>,
      <<<<"C", "t", "a", ".", " ", "R", "D", "A">>, 31>>,
      <<<<"B", "a", "n", "c", "o", " ">>, 2>>>>

\* _compact_txt: lower case, no white space, hyphen, dot, slash or parenthesis
compact_txt(s) ==
    SelectSeq(minusculas(strip(s)), LAMBDA c : ~IsSpace(c) /\ c \notin {"-", ".", "/", "(", ")"})

\* _only_digits
only_digits(s) == SelectSeq(s, LAMBDA c : IsDigit(c))

contiene_pago_facil(txt) ==
    Contiene(normalize_canal(txt), <<"p", "a", "g", "o", "f", "a", "c", "i", "l">>)

contiene_rapipago(txt) ==
    Contiene(normalize_canal(txt), <<"r", "a", "p", "i", "p", "a", "g", "o">>)

\* lines 153-158 for one entry of DESTINATARIOS_COMPILED: one of its compact
\* patterns is in raw_compact or one of its digit patterns in raw_digits
coincide(d, raw) ==
    \E k \in 1..Len(d.patrones) :
        \/ compact_txt(d.patrones[k]) # << >>
              /\ Contiene(compact_txt(raw), compact_txt(d.patrones[k]))
        \/ only_digits(d.patrones[k]) # << >>
              /\ Contiene(only_digits(raw), only_digits(d.patrones[k]))

resolver_cta_destino(emisor, destino_raw) ==
    IF es_banco_comafi(emisor) THEN <<"B", "a", "n", "c", "o">>
    ELSE IF contiene_pago_facil(emisor)
    THEN <<"P", "a", "g", "o", " ", "F", "a", "c", "i", "l">>
    ELSE IF contiene_rapipago(emisor) THEN <<"R", "a", "p", "i", "p", "a", "g", "o">>
    ELSE IF \E k \in 1..Len(DESTINATARIOS) : coincide(DESTINATARIOS[k], strip(destino_raw))
    THEN DESTINATARIOS[Min({k \in 1..Len(DESTINATARIOS) :
                               coincide(DESTINATARIOS[k], strip(destino_raw))})].namePago
    ELSE strip(destino_raw)

\* CANAL_TO_CODE.get(normalize_canal(destino_n), 0)
canal_code(destino_n) ==
    IF \E k \in 1..Len(CANAL_TO_CODE) : CANAL_TO_CODE[k][1] = normalize_canal(destino_n)
    THEN CANAL_TO_CODE[CHOOSE k \in 1..Len(CANAL_TO_CODE) :
                           CANAL_TO_CODE[k][1] = normalize_canal(destino_n)][2]
    ELSE 0

EmisoresPrueba ==
    {<< >>, <<"B", "a", "n", "c", "o", " ", "C", "o", "m", "a", "f", "i">>,
     <<"P", "A", "G", "O", " ", "F", "A", "C", "I", "L", " ", "S", ".", "A", ".">>,
     <<"R", "a", "p", "i", "p", "a", "g", "o">>,
     <<"S", "a", "n", "t", "a", "n", "d", "e", "r", " ", "R", "i", "o">>}

DestinosPrueba ==
    {<< >>,
     <<"o", "t", "r", "o", " ", "d", "e", "s", "t", "i", "n", "o">>,
     <<"C", "t", "a", ".", " ", "M", "i", "n", "s">>,
     <<"C", "B", "U", " ", "2", "9", "9", "0", "0", "0", "0", "0", "0", "0", "0", "0", "1", "0", "5", "4", "3", "9", "0", "0", "0", "8">>,
     <<"3", "0", "-", "6", "0", "4", "7", "3", "1", "0", "1", "-", "8">>,
     <<"C", "B", "U", " ", "0", "1", "7", "0", "1", "5", "5", "1", "2", "0", "0", "0", "0", "0", "0", "1", "2", "5", "5", "5", "9", "5">>,
     <<"3", "0", "-", "7", "1", "6", "3", "1", "6", "8", "6", "-", "2">>,
     <<"C", "B", "U", " ", "0", "9", "9", "-", "7", "2", "0", "7", "7", "7", "/", "6">>,
     <<"(", "0", "0", "0", ")", " ", "0", "3", "3", "6", "0", "0", "/", "2">>,
     <<"C", "B", "U", " ", "2", "9", "9", "0", "1", "1", "3", "3", "1", "1", "3", "0", "0", "1", "5", "0", "4", "1", "0", "0", "0", "2">>,
     <<"3", "0", "7", "1", "6", "8", "3", "0", "9", "3", "0">>,
     <<"C", "B", "U", " ", "0", "0", "0", "4", "1", "9", "4", "-", "6", " ", "0", "2", "4", "-", "7">>,
     <<"3", "3", "-", "7", "1", "5", "7", "3", "2", "9", "6", "-", "9", " ">>,
     <<"C", "B", "U", " ", "1", "8", "1", "5", "6", "-", "5", " ", "3", "3", "9", "-", "3">>,
     <<"3", "0", "-", "7", "1", "5", "8", "9", "3", "6", "0", "-", "2">>,
     <<"C", "B", "U", " ", "3", "0", "5", "3", "8", "0", "0", "6", "4", "0", "4">>,
     <<"0", "7", "2", "0", "0", "0", "0", "7", "2", "0", "0", "0", "0", "0", "0", "1", "6", "6", "3", "9", "1", "8">>,
     <<"c", "u", "i", "t", " ", "3", "0", " ", "7", "1", "6", "8", "3", "0", "9", "3", " ", "0">>,
     <<"1", "0", "5", "4", "3", "/", "9", " ", "y", " ", "3", "0", "5", "3", "8", "0", "0", "6", "4", "0", "4">>}

\* lines 306-316 of ejecutar_carga_pagos for one raw row
LlamarResolverCanal ==
    /\ canal_llamada.op = "pendiente"
    /\ canal_llamada' =
           [op |-> "retorno",
            emisor |-> canal_llamada.emisor,
            destino_raw |-> canal_llamada.destino_raw,
            destino_n |-> resolver_cta_destino(strip(canal_llamada.emisor),
                                               strip(canal_llamada.destino_raw)),
            canal_code |-> canal_code(resolver_cta_destino(strip(canal_llamada.emisor),
                                                           strip(canal_llamada.destino_raw)))]
    /\ UNCHANGED <<varsParsers, varsStore, varsCuotas, varsFila, varsPipelines, varsCalendario,
                   varsMontos, varsProceso, varsOtra>>

InitCanal ==
    /\ archivo = << >>
    /\ dni_normal = Pendiente
    /\ dni_honorario = Pendiente
    /\ CalendarioSinUso
    /\ MontosSinUso
    /\ ProcesoSinUso
    /\ OtraSinUso
    /\ \E e \in EmisoresPrueba, d \in DestinosPrueba :
          canal_llamada = [op |-> "pendiente", emisor |-> e, destino_raw |-> d]
    /\ header_pro = << >>
    /\ data_pro = << >>
    /\ hojas = [h \in NombresHoja |-> << >>]
    /\ ahora = [mesIdx |-> 2, anio |-> 2025]
    /\ CuotasEnReposo
    /\ PipelinesSinUso

NextCanal == LlamarResolverCanal

SpecCanal == InitCanal /\ [][NextCanal]_vars

\* the destination names of the issuer rules and of DESTINATARIOS
NombresCanonicos ==
    {<<"B", "a", "n", "c", "o">>, <<"P", "a", "g", "o", " ", "F", "a", "c", "i", "l">>,
     <<"R", "a", "p", "i", "p", "a", "g", "o">>}
        \cup {DESTINATARIOS[k].namePago : k \in 1..Len(DESTINATARIOS)}

\* C28: whenever resolver_cta_destino returns one of the canonical
\* destination names, the channel code written with it is a code of
\* CANAL_TO_CODE and is not 0.
C28_CodigoDeCanal ==
    (canal_llamada.op = "retorno" /\ canal_llamada.destino_n \in NombresCanonicos) =>
        /\ canal_llamada.canal_code # 0
        /\ \E k \in 1..Len(CANAL_TO_CODE) : CANAL_TO_CODE[k][2] = canal_llamada.canal_code

(***************************************************************************)
(* SpecProceso: procesar_pagos (main.py 46-105), the four pipelines run    *)
(* one after the other on the same store; an exception out of any of them  *)
(* ends the invocation with status 500.  ejecuciones and cq_corridas count *)
(* the runs of the invocation under way.                                   *)
(***************************************************************************)
MaxInvocaciones == 2

\* lines 62-66: the try block is entered
ProcesoInicio ==
    /\ pp_fase = "reposo"
    /\ Len(pp_respuestas) < MaxInvocaciones
    /\ pp_fase' = "carga"
    /\ ejecuciones' = 0
    /\ cq_corridas' = 0
    /\ UNCHANGED <<varsParsers, varsStore, varsFila, cq_pc, cq_i, acumulador, conceptos, cuotas,
                   actualizadas, info, fallas, varsCarga, varsHon, varsCalendario, varsMontos,
                   varsCanal, pp_respuestas, historico, varsOtra>>

\* line 68: ejecutar_carga_pagos(sheets)
ProcesoCargaInicio == pp_fase = "carga" /\ ejecuciones = 0 /\ CargaInicio
ProcesoCargaFila == pp_fase = "carga" /\ CargaFila
ProcesoCargaEscribir == pp_fase = "carga" /\ CargaEscribir

\* the except clause of lines 97-104
except_proceso(resps) == Append(resps, 500)

\* lines 68-72: ejecutar_carga_pagos has returned or raised
ProcesoTrasCarga ==
    /\ pp_fase = "carga"
    /\ ejecuciones = 1
    /\ cp_pc = "reposo"
    /\ IF cp_resultado.tipo = "excepcion"
       THEN pp_fase' = "reposo" /\ pp_respuestas' = except_proceso(pp_respuestas)
       ELSE pp_fase' = "honorarios" /\ UNCHANGED pp_respuestas
    /\ UNCHANGED <<varsParsers, varsStore, varsCuotas, varsFila, varsPipelines, varsCalendario,
                   varsMontos, varsCanal, historico, varsOtra>>

\* line 72: ejecutar_honorarios(sheets)
ProcesoHonInicio == pp_fase = "honorarios" /\ ejecuciones = 1 /\ HonInicio
ProcesoHonGrupo == pp_fase = "honorarios" /\ HonGrupo
ProcesoHonEstado == pp_fase = "honorarios" /\ HonEstado

\* lines 72-76: ejecutar_honorarios has returned or raised
ProcesoTrasHonorarios ==
    /\ pp_fase = "honorarios"
    /\ ejecuciones = 2
    /\ hn_pc = "reposo"
    /\ IF hn_resultado.tipo = "excepcion"
       THEN pp_fase' = "reposo" /\ pp_respuestas' = except_proceso(pp_respuestas)
       ELSE pp_fase' = "cuotas" /\ UNCHANGED pp_respuestas
    /\ UNCHANGED <<varsParsers, varsStore, varsCuotas, varsFila, varsPipelines, varsCalendario,
                   varsMontos, varsCanal, historico, varsOtra>>

\* line 76: ejecutar_cuotas_concepto(sheets)
ProcesoCuotasInicio == pp_fase = "cuotas" /\ cq_corridas = 0 /\ CuotasInicio
ProcesoCuotasFila == pp_fase = "cuotas" /\ CuotasFila
ProcesoCuotasEscribir == pp_fase = "cuotas" /\ CuotasEscribir

\* historico.py 19-20: the first 16 cells of every data row (A .. P)
primeras_16(filas_info) ==
    [k \in 1..Len(filas_info) |->
        [archivo |-> filas_info[k].archivo, fecha |-> filas_info[k].fecha,
         monto |-> filas_info[k].monto, p |-> filas_info[k].p]]

\* SheetsIO.copiar_a_historico: the rows are appended to 'Historico'
copiar_a_historico(hist, filas) == hist \o filas

\* lines 80-95: ejecutar_historico(sheets) and the response; a call to the
\* store that raises ends the invocation with 500
ProcesoHistorico ==
    /\ pp_fase = "cuotas"
    /\ cq_corridas = 1
    /\ cq_pc = "reposo"
    /\ pp_fase' = "reposo"
    /\ \/ /\ historico' = copiar_a_historico(historico, primeras_16(info))
          /\ pp_respuestas' = Append(pp_respuestas, 200)
          /\ UNCHANGED fallas
       \/ /\ fallas < MaxFallas
          /\ fallas' = fallas + 1
          /\ pp_respuestas' = except_proceso(pp_respuestas)
          /\ UNCHANGED historico
    /\ UNCHANGED <<varsParsers, varsStore, varsCuotas, varsFila, info, ejecuciones, varsCarga,
                   varsHon, varsCalendario, varsMontos, varsCanal, varsOtra>>

CarteraBancoComafi == <<"B", "a", "n", "c", "o", " ", "C", "o", "m", "a", "f", "i">>
ProBancoComafi == [ProComafi EXCEPT !.cartera = CarteraBancoComafi]
LedgersProceso == {<<ProPrimero, ProExi, ProComafi>>, <<ProExi>>, <<ProBancoComafi>>}
FilasInfoProceso ==
    {FilaInfo(ArchivoA, Txt05del03, Txt500),
     FilaInfo(ArchivoA, Txt10del03, Txt1000con50),
     FilaInfo(ArchivoAHon, Txt10del03, Txt500)}
HojasProceso ==
    {[h \in NombresHoja |-> << >>],
     [h \in NombresHoja |-> IF h = <<2, 25>> THEN HojasPrueba2Mar ELSE << >>]}

InitProceso ==
    /\ archivo = << >>
    /\ dni_normal = Pendiente
    /\ dni_honorario = Pendiente
    /\ PurosSinUso
    /\ header_pro = HeaderCompleto
    /\ data_pro \in LedgersProceso
    /\ hojas \in HojasProceso
    /\ ahora = [mesIdx |-> 2, anio |-> 2025]
    /\ CuotasEnReposo
    /\ info \in UNION {[1..n -> FilasInfoProceso] : n \in 0..MaxInfo}
    /\ ejecuciones = 0
    /\ fallas = 0
    /\ CargaEnReposo
    /\ cp_resultado = [tipo |-> "ninguno"]
    /\ HonEnReposo
    /\ hn_resultado = [tipo |-> "ninguno"]

NextProceso ==
    \/ ProcesoInicio
    \/ ProcesoCargaInicio
    \/ ProcesoCargaFila
    \/ ProcesoCargaEscribir
    \/ ProcesoTrasCarga
    \/ ProcesoHonInicio
    \/ ProcesoHonGrupo
    \/ ProcesoHonEstado
    \/ ProcesoTrasHonorarios
    \/ ProcesoCuotasInicio
    \/ ProcesoCuotasFila
    \/ ProcesoCuotasEscribir
    \/ ProcesoHistorico

SpecProceso == InitProceso /\ [][NextProceso]_vars

\* the k-th copy of the raw rows in 'Historico': archivo, fecha and monto of
\* every raw row, in the order of the rows
CopiaDeInfo(j) ==
    \A i \in 1..Len(info) :
        /\ historico[(j - 1) * Len(info) + i].archivo = info[i].archivo
        /\ historico[(j - 1) * Len(info) + i].fecha = info[i].fecha
        /\ historico[(j - 1) * Len(info) + i].monto = info[i].monto

TodasExitosas == \A j \in 1..Len(pp_respuestas) : pp_respuestas[j] = 200

\* 'Historico' holds one copy of every raw row for each invocation made
CopiasPorInvocacion ==
    /\ Len(historico) = Len(pp_respuestas) * Len(info)
    /\ \A j \in 1..Len(pp_respuestas) : CopiaDeInfo(j)

\* after k invocations that all returned 200, 'Historico' holds k copies of
\* every raw row
HistoricoSinDedupe == (pp_fase = "reposo" /\ TodasExitosas) => CopiasPorInvocacion

\* the phases follow one another in the order of lines 68-80
OrdenDeFases ==
    [][/\ pp_fase' # pp_fase =>
            <<pp_fase, pp_fase'>> \in {<<"reposo", "carga">>, <<"carga", "honorarios">>,
                                       <<"honorarios", "cuotas">>, <<"cuotas", "reposo">>,
                                       <<"carga", "reposo">>, <<"honorarios", "reposo">>}
       /\ (cp_pc' # cp_pc \/ cp_i' # cp_i) => pp_fase = "carga"
       /\ (hn_pc' # hn_pc \/ hn_g' # hn_g) => pp_fase = "honorarios"
       /\ (cq_pc' # cq_pc \/ cq_i' # cq_i) => pp_fase = "cuotas"
       /\ historico' # historico =>
             /\ pp_fase = "cuotas" /\ cq_corridas = 1 /\ cq_pc = "reposo"
             /\ pp_respuestas' = Append(pp_respuestas, 200)]_vars

\* every sheet holds each receipt of the loader once
CadaReciboUnaVez ==
    \A h \in DOMAIN hojas : \A j, k \in 1..Len(hojas[h]) :
        (j < k /\ ~es_honorario_existente(hojas[h][j]) /\ ~es_honorario_existente(hojas[h][k]))
            => ~MismaTupla(hojas[h][j], hojas[h][k])

C24_SinNoMatch ==
    (pp_fase = "cuotas" /\ cq_corridas = 1 /\ cq_pc = "reposo" /\ HojaActual \in DOMAIN hojas) =>
        \A k \in 1..Len(filas_por_hoja) :
            filas_por_hoja[k].hoja = HojaActual =>
                \A f \in 1..Len(filas_por_hoja[k].filas) :
                    \A r \in 1..Len(hojas[HojaActual]) :
                        ([hojas[HojaActual][r] EXCEPT !.concepto = "", !.cuota = << >>]
                            = [filas_por_hoja[k].filas[f] EXCEPT !.concepto = "", !.cuota = << >>])
                        => hojas[HojaActual][r].concepto # "No Match"

(***************************************************************************)
(* Two runs of ejecutar_carga_pagos against one store.  The first run is   *)
(* the run of CargaInicio, CargaFila and CargaEscribir; the second one     *)
(* keeps its local variables in the record 'otra' and takes the same three *)
(* steps.  Nothing in the code holds a lock: the steps interleave freely.  *)
(***************************************************************************)
\* the local variables of the first run, as a record
LocalDeCarga ==
    [pc |-> cp_pc, i |-> cp_i, info_data |-> info_data, pro_leido |-> pro_leido,
     existing_entries |-> existing_entries, filas_por_hoja |-> filas_por_hoja,
     estados |-> estados, cargados |-> cargados, duplicados |-> duplicados,
     errores |-> errores]

\* lines 275-280: the row loc.i gets as far as the read of its period sheet
lee_hoja(loc) ==
    LET row == loc.info_data[loc.i]
        dni == extraer_dni_desde_archivo(strip(row.archivo))
        fecha == parsear_fecha_flexible(row.fecha, ahora.anio)
    IN  /\ dni # << >>
        /\ mapa_dni(loc.pro_leido, dni) # 0
        /\ fecha # SinFecha
        /\ nombre_hoja_mes(fecha.mesIdx, fecha.anio) \notin DOMAIN loc.existing_entries

\* lines 245-383: the local variables after the body of the loop for the
\* raw row loc.i; 'falla' tells that the read of the period sheet raises
fila_siguiente(loc, falla) ==
    LET row == loc.info_data[loc.i]
        dni == extraer_dni_desde_archivo(strip(row.archivo))
        fecha == parsear_fecha_flexible(row.fecha, ahora.anio)
        hoja_nombre == nombre_hoja_mes(fecha.mesIdx, fecha.anio)
        clave == <<dni, fecha.dia, fecha.mesIdx>>
        cargar == hoja_nombre \notin DOMAIN loc.existing_entries
        existentes == IF cargar
                      THEN claves_existentes(leer_hoja_sin_header(hoja_nombre))
                      ELSE loc.existing_entries[hoja_nombre]
        filas == con_hoja(loc.filas_por_hoja, hoja_nombre)
        sig == [loc EXCEPT !.i = @ + 1,
                           !.pc = IF loc.i = Len(loc.info_data) THEN "escribir" ELSE "filas"]
    IN  IF dni = << >>
        THEN [sig EXCEPT !.estados = Append(@, <<"DNI inválido en archivo">>)]
        ELSE IF mapa_dni(loc.pro_leido, dni) = 0
        THEN [sig EXCEPT !.estados = Append(@, <<"No existe en PRO">>), !.errores = @ + 1]
        ELSE IF fecha = SinFecha
        THEN [sig EXCEPT !.estados = Append(@, <<"Fecha inválida">>), !.errores = @ + 1]
        ELSE IF falla
        THEN [sig EXCEPT !.existing_entries = (hoja_nombre :> {}) @@ @,
                         !.estados = except_fila(@),
                         !.errores = @ + 1]
        ELSE IF clave \in existentes
        THEN [sig EXCEPT !.estados = Append(@, <<"Duplicado en", hoja_nombre>>),
                         !.duplicados = @ + 1,
                         !.existing_entries = (hoja_nombre :> existentes) @@ @,
                         !.filas_por_hoja = filas]
        ELSE [sig EXCEPT !.estados = Append(@, <<"OK", hoja_nombre>>),
                         !.cargados = @ + 1,
                         !.existing_entries = (hoja_nombre :> (existentes \cup {clave})) @@ @,
                         !.filas_por_hoja =
                             encolar(filas, hoja_nombre,
                                     nueva_fila(dni, loc.pro_leido[mapa_dni(loc.pro_leido, dni)],
                                                header_pro, fecha, row.monto))]

\* the step CargaFila of the first run computes fila_siguiente
FilaComoLocal ==
    [][CargaFila => LocalDeCarga' = fila_siguiente(LocalDeCarga, fallas' # fallas)]_vars

\* a step of the second run finds the first run under way, or finds that a
\* run has started since its own last step
Solape ==
    \/ cp_pc # "reposo"
    \/ otra.pc # "reposo" /\ otra.ejecuciones # ejecuciones

\* lines 218-243 in the second run
OtraInicio ==
    /\ otra.pc = "reposo"
    /\ otra.corridas < MaxOtras
    /\ LET ini == [OtraEnReposo EXCEPT !.corridas = otra.corridas + 1,
                                       !.ejecuciones = ejecuciones]
       IN  \/ /\ fallas < MaxFallas
              /\ fallas' = fallas + 1
              /\ otra' = [ini EXCEPT !.resultado = [tipo |-> "excepcion"]]
           \/ /\ UNCHANGED fallas
              /\ otra' =
                    IF info = << >> \/ data_pro = << >>
                    THEN [ini EXCEPT !.info_data = info, !.pro_leido = data_pro,
                                     !.resultado =
                                         [tipo |-> "retorno", cargados |-> 0, duplicados |-> 0,
                                          errores |-> 0,
                                          detalle |-> IF info = << >> THEN ""
                                                      ELSE "Hoja Pro vacía"]]
                    ELSE [ini EXCEPT !.info_data = info, !.pro_leido = data_pro,
                                     !.pc = "filas", !.i = 1,
                                     !.resultado = otra.resultado]
    /\ solapadas' = (solapadas \/ cp_pc # "reposo")
    /\ UNCHANGED <<varsParsers, varsStore, varsCuotas, varsFila, info, ejecuciones, varsCarga,
                   varsHon, varsCalendario, varsMontos, varsCanal, varsProceso>>

\* lines 245-383 in the second run
OtraFila ==
    /\ otra.pc = "filas"
    /\ \E falla \in BOOLEAN :
          /\ falla => (lee_hoja(otra) /\ fallas < MaxFallas)
          /\ fallas' = IF falla THEN fallas + 1 ELSE fallas
          /\ otra' = [fila_siguiente(otra, falla) EXCEPT !.ejecuciones = ejecuciones]
    /\ solapadas' = (solapadas \/ Solape)
    /\ UNCHANGED <<varsParsers, varsStore, varsCuotas, varsFila, info, ejecuciones, varsCarga,
                   varsHon, varsCalendario, varsMontos, varsCanal, varsProceso>>

\* lines 385-399 in the second run
OtraEscribir ==
    /\ otra.pc = "escribir"
    /\ \/ \E k \in 1..Len(otra.filas_por_hoja) :
             /\ otra.filas_por_hoja[k].filas # << >>
             /\ fallas < MaxFallas
             /\ fallas' = fallas + 1
             /\ hojas' = escribir_filas_mes(hojas, otra.filas_por_hoja, k - 1)
             /\ otra' = [otra EXCEPT !.pc = "reposo", !.ejecuciones = ejecuciones,
                                     !.resultado = [tipo |-> "excepcion"]]
             /\ UNCHANGED info
       \/ LET res == [tipo |-> "retorno", cargados |-> otra.cargados,
                      duplicados |-> otra.duplicados, errores |-> otra.errores,
                      detalle |-> IF otra.errores = 0 THEN "" ELSE "filas con error"]
          IN  /\ hojas' = escribir_filas_mes(hojas, otra.filas_por_hoja,
                                             Len(otra.filas_por_hoja))
              /\ \/ /\ info' = escribir_estado_info(info, otra.estados)
                    /\ otra' = [otra EXCEPT !.pc = "reposo", !.ejecuciones = ejecuciones,
                                            !.resultado = res]
                    /\ UNCHANGED fallas
                 \/ /\ fallas < MaxFallas
                    /\ fallas' = fallas + 1
                    /\ otra' = [otra EXCEPT !.pc = "reposo", !.ejecuciones = ejecuciones,
                                            !.resultado = except_estado(res)]
                    /\ UNCHANGED info
    /\ solapadas' = (solapadas \/ Solape)
    /\ UNCHANGED <<varsParsers, header_pro, data_pro, ahora, varsCuotas, varsFila, ejecuciones,
                   varsCarga, varsHon, varsCalendario, varsMontos, varsCanal, varsProceso>>

\* one receipt, once or twice in the raw rows, and a second receipt
FilasInfoSolape ==
    {<<FilaInfo(ArchivoA, Txt05del03, Txt500)>>,
     <<FilaInfo(ArchivoA, Txt05del03, Txt500), FilaInfo(ArchivoA, Txt05del03, Txt500)>>,
     <<FilaInfo(ArchivoA, Txt05del03, Txt500), FilaInfo(ArchivoA, Txt10del03, Txt1000con50)>>}

InitSolape ==
    /\ archivo = << >>
    /\ dni_normal = Pendiente
    /\ dni_honorario = Pendiente
    /\ PurosSinUso
    /\ header_pro = HeaderCompleto
    /\ data_pro = <<ProPrimero>>
    /\ hojas = [h \in NombresHoja |-> << >>]
    /\ ahora = [mesIdx |-> 2, anio |-> 2025]
    /\ CuotasEnReposo
    /\ info \in FilasInfoSolape
    /\ ejecuciones = 0
    /\ fallas = 0
    /\ CargaEnReposo
    /\ cp_resultado = [tipo |-> "ninguno"]
    /\ HonEnReposo
    /\ hn_resultado = [tipo |-> "ninguno"]

NextSolape ==
    \/ CargaInicio
    \/ CargaFila
    \/ CargaEscribir
    \/ OtraInicio
    \/ OtraFila
    \/ OtraEscribir

SpecSolape == InitSolape /\ [][NextSolape]_vars

\* a sheet holds two entries of the loader with one identifier, day and month
ReciboRepetido == ~CadaReciboUnaVez

\* both runs have read the sheet of the receipt before either appended to
\* it, both have let the receipt through and both have appended it, with no
\* failure of the store
CarreraCompleta ==
    /\ fallas = 0
    /\ cp_pc = "reposo" /\ otra.pc = "reposo"
    /\ solapadas
    /\ cargados > 0 /\ otra.cargados > 0
    /\ duplicados = 0 /\ otra.duplicados = 0
    /\ ReciboRepetido

\* the race is out of reach: no state has both runs through the check and
\* the receipt twice in its sheet
SinCarrera == ~CarreraCompleta

\* C23: two runs that overlap can both read the sheet before either appends
\* and leave the receipt twice in it; when the runs do not overlap, no sheet
\* ever holds two entries with one (identifier, day, month).
C23_SoloPorSolape == ReciboRepetido => solapadas

====
